---- MODULE Spec2Model ----
(***************************************************************************)
(* A model of the privileged command execution engine of RaidRaccoon:      *)
(*   - execwrap.Run            (the synchronous bounded command runner),   *)
(*   - runZfsPipeline          (the zfs send | zfs recv pipeline),         *)
(*   - JobManager / Job        (asynchronous jobs with streamed output).   *)
(* Strings are sequences of one-character strings; a byte of process       *)
(* output is a pair <<stream, index>> so that order and origin are         *)
(* observable.  Sizes are scaled: the operating system's pipe buffer, the  *)
(* 4096/1024 byte read buffers and the 1 MiB default limit are small       *)
(* numbers with the same ordering as in the program.                       *)
(***************************************************************************)
EXTENDS Integers, Sequences, FiniteSets, TLC

(***************************************************************************)
(* Bounds of the model.                                                    *)
(***************************************************************************)
\* capacity of an operating-system pipe (64 KiB on the real system)
PipeCap == 2
\* bytes returned by one Read call at most (the 4096 / 1024 byte buffers)
ReadBuf == 2
\* most bytes a child process writes to one stream
MaxWrite == 5
\* stand-in for the default output limit 1 << 20
DefaultLimit == 4
\* number of Job objects the model allocates
MaxJobs == 2
\* largest value of the wall clock
MaxClock == 2
\* most bytes the process of a Job writes to one stream
MaxJobWrite == 2
\* stand-in for the retention window of 15 minutes, in clock units
Ttl == 1
\* stand-in for the capacity 16 of a subscriber's channel
ChanCap == 2

(***************************************************************************)
(* State.                                                                  *)
(***************************************************************************)
VARIABLES
    \* execwrap.Run: position, arguments, captured output, result
    rPc, rCmd, rLimit, rOut, rErrOut, rOutTrunc, rErrTrunc, rPipes, rCtx,
    rResult, rErr,
    \* the child process of Run and its two pipes
    cState, cExit, cOutPlan, cErrPlan, cOutLeft, cErrLeft, cPipeOut, cPipeErr,
    cCtxKill

runVars == <<rPc, rCmd, rLimit, rOut, rErrOut, rOutTrunc, rErrTrunc, rPipes,
             rCtx, rResult, rErr>>
childVars == <<cState, cExit, cOutPlan, cErrPlan, cOutLeft, cErrLeft, cPipeOut,
               cPipeErr, cCtxKill>>

VARIABLES
    \* runZfsPipeline: position, limit, deadline, the in-memory pipe's two ends,
    \* the order of events, the shared stderr buffer, the two Wait errors, result
    pPc, pLimit, pCtx, pWriter, pReader, pEvents, pErrBuf, pSendErr, pRecvErr,
    pResult, pErr,
    \* the producer (zfs send) and the consumer (zfs recv)
    sendState, sendExit, sendErrLeft, recvState, recvExit, recvErrLeft,
    \* the producer's stdout on its way to the consumer's stdin: bytes the
    \* producer has still to write, bytes in its stdout pipe, the goroutine of
    \* sendCmd that copies them into the in-memory pipe, the goroutine of
    \* recvCmd that copies from the in-memory pipe to the consumer's stdin
    \* pipe, bytes in that pipe, and whether the consumer exits without
    \* waiting for the end of its input
    sendOutLeft, sendPipe, sendCopy, recvCopy, recvPipe, recvEarly

pipeVars == <<pPc, pLimit, pCtx, pWriter, pReader, pEvents, pErrBuf, pSendErr,
              pRecvErr, pResult, pErr>>
procVars == <<sendState, sendExit, sendErrLeft, recvState, recvExit, recvErrLeft>>
flowVars == <<sendOutLeft, sendPipe, sendCopy, recvCopy, recvPipe, recvEarly>>

VARIABLES
    \* JobManager: cfg, the job table (id -> Job), the wall clock, the audit log
    jmCfg, jobs, clock, auditLog,
    \* the result of the latest Start call
    lastStart,
    \* per Job object: its fields, the position of its runJob task, its
    \* deadline, its process with the two pipes, its two stream readers and
    \* the error of cmd.Wait
    job, jPc, jCtx, jTimeout, jProc, jReaders, jWaitErr

jmVars == <<jmCfg, jobs, clock, auditLog, lastStart>>
jobVars == <<job, jPc, jCtx, jTimeout, jProc, jReaders, jWaitErr>>

VARIABLES
    \* per Job object: the context Start was given, parent of its deadline
    jParent,
    \* per viewer: the position of its streamJob handler, the Job it streams,
    \* the output it read at the start, its subscription channel and the
    \* chunks it has sent to its client;
    \* with them, as history, the chunks broadcast while it was subscribed
    \* and whether one of them was dropped for it
    view

viewVars == <<jParent, view>>

VARIABLES
    \* a limitedBuffer with the bytes written to it so far, and a call of
    \* ReadAllLimited with the bytes its reader has returned so far
    lb, lbWritten, ra, raRead

bufVars == <<lb, lbWritten, ra, raRead>>

VARIABLES
    \* the snapshots of the source dataset and of the target, each in
    \* creation order, and the wall clock in seconds
    srcSnaps, tgtSnaps, rpClock,
    \* ReplicateDataset: position, the retention argument, the locals name,
    \* matches, prev, curr and sendArgs, and what it returned
    rpPc, rpRetention, rpName, rpMatches, rpSel, rpSendArgs, rpRes,
    \* history: the snapshots that invocations have transferred successfully
    rpSent

replVars == <<srcSnaps, tgtSnaps, rpClock, rpPc, rpRetention, rpName, rpMatches,
              rpSel, rpSendArgs, rpRes, rpSent>>

VARIABLES
    \* the lock of one Job: the task that holds it; the position of each task
    \* that touches the Job (the section of code it is at, and whether it is
    \* inside it); as history, who has written each field and under the lock
    \* or not
    lkHolder, lkPc, lkWrote

lockVars == <<lkHolder, lkPc, lkWrote>>

vars == <<runVars, childVars, pipeVars, procVars, flowVars, jmVars, jobVars,
          viewVars, bufVars, replVars, lockVars>>

RunFrame == UNCHANGED <<pipeVars, procVars, flowVars, jmVars, jobVars, viewVars,
                        bufVars, replVars, lockVars>>
PipeFrame == UNCHANGED <<runVars, childVars, jmVars, jobVars, viewVars, bufVars,
                         replVars, lockVars>>
JobsFrame == UNCHANGED <<runVars, childVars, pipeVars, procVars, flowVars, bufVars,
                         replVars, lockVars>>
BufFrame == UNCHANGED <<runVars, childVars, pipeVars, procVars, flowVars,
                        jmVars, jobVars, viewVars, replVars, lockVars>>
ReplFrame == UNCHANGED <<runVars, childVars, pipeVars, procVars, flowVars,
                         jmVars, jobVars, viewVars, bufVars, lockVars>>
LockFrame == UNCHANGED <<runVars, childVars, pipeVars, procVars, flowVars,
                         jmVars, jobVars, viewVars, bufVars, replVars>>

(***************************************************************************)
(* Strings.                                                                *)
(***************************************************************************)
Min(a, b) == IF a <= b THEN a ELSE b

IsPrefix(s, t) == Len(s) <= Len(t) /\ SubSeq(t, 1, Len(s)) = s

\* strings.HasPrefix(s, "/")
HasSlashPrefix(s) == Len(s) > 0 /\ s[1] = "/"

\* strings.Fields: the maximal runs of non-space characters of s, in order
RECURSIVE FieldsFrom(_, _, _)
FieldsFrom(s, i, cur) ==
    IF i > Len(s)
    THEN IF cur = <<>> THEN <<>> ELSE <<cur>>
    ELSE IF s[i] = " "
         THEN (IF cur = <<>> THEN <<>> ELSE <<cur>>) \o FieldsFrom(s, i + 1, <<>>)
         ELSE FieldsFrom(s, i + 1, Append(cur, s[i]))

Fields(s) == FieldsFrom(s, 1, <<>>)

\* filepath.Base for a path without trailing slashes: what follows the last "/"
RECURSIVE BaseFrom(_, _)
BaseFrom(s, i) ==
    IF i = 0 THEN s
    ELSE IF s[i] = "/" THEN SubSeq(s, i + 1, Len(s))
    ELSE BaseFrom(s, i - 1)

Base(s) == IF s = <<>> THEN <<".">> ELSE BaseFrom(s, Len(s))

\* strings.Join(parts, " ")
RECURSIVE JoinSpace(_)
JoinSpace(parts) ==
    IF parts = <<>> THEN <<>>
    ELSE IF Len(parts) = 1 THEN parts[1]
    ELSE parts[1] \o <<" ">> \o JoinSpace(Tail(parts))

(***************************************************************************)
(* Errors returned by exec.Cmd.Wait and their mapping to an exit code.     *)
(***************************************************************************)
ErrNil == [kind |-> "nil", code |-> 0]
ErrExit(c) == [kind |-> "exit", code |-> c]
ErrDeadline == [kind |-> "deadline", code |-> 0]
ErrOther == [kind |-> "other", code |-> 0]

\* the branch order of the program: *exec.ExitError first, then
\* context.DeadlineExceeded, then any other error
ExitCodeOf(err) ==
    IF err.kind = "nil" THEN 0
    ELSE IF err.kind = "exit" THEN err.code
    ELSE IF err.kind = "deadline" THEN 124
    ELSE 1

(***************************************************************************)
(* What exec.Cmd.Wait returns for a process in state st with exit code     *)
(* code.  A process killed by the context's deadline was terminated by a   *)
(* signal: Wait returns an *exec.ExitError whose ExitCode() is -1.  The    *)
(* context's error is returned only when the deadline fired on a process   *)
(* that had already exited with status 0 and was not yet waited for.       *)
(***************************************************************************)
CmdWaitErr(st, code, ctxKill) ==
    IF st = "killed" THEN ErrExit(-1)
    ELSE IF code # 0 THEN ErrExit(code)
    ELSE IF ctxKill THEN ErrDeadline
    ELSE ErrNil

\* the first Min(Len(s), n) elements of s
FirstBytes(s, n) == SubSeq(s, 1, Min(Len(s), n))

\* limit <= 0 selects the default limit
EffLimit(limit) == IF limit <= 0 THEN DefaultLimit ELSE limit

\* the bytes 1..n of one stream
StreamBytes(stream, n) == [i \in 1..n |-> <<stream, i>>]

ExitCodes == {0, 3}

(***************************************************************************)
(* execwrap.Run.                                                           *)
(***************************************************************************)
RunCmds == { <<>>, <<"z">>, <<"/", "s", "/", "z">> }
RunLimits == {0, 1}

ZeroResult == [Stdout |-> <<>>, Stderr |-> <<>>, ExitCode |-> 0, Truncated |-> FALSE]

\* Run is not in use
RunIdle ==
    /\ rPc = "idle" /\ rCmd = <<>> /\ rLimit = 0
    /\ rOut = <<>> /\ rErrOut = <<>>
    /\ rOutTrunc = FALSE /\ rErrTrunc = FALSE
    /\ rPipes = 0 /\ rCtx = "none" /\ rResult = ZeroResult /\ rErr = ""
    /\ cState = "none" /\ cExit = 0
    /\ cOutPlan = 0 /\ cErrPlan = 0 /\ cOutLeft = 0 /\ cErrLeft = 0
    /\ cPipeOut = <<>> /\ cPipeErr = <<>> /\ cCtxKill = FALSE

\* the guard of Run: absCmd == "" || absCmd[0] != '/'
IsAbsoluteCmdNoSlash(absCmd) == absCmd # <<>>

IsAbsoluteCmd(absCmd) == absCmd # <<>> /\ absCmd[1] = "/"

\* One iteration of ReadAllLimited's loop on a pipe holding `pipe`: Read
\* returns at most ReadBuf bytes; a read that would pass the limit keeps the
\* bytes that fit and returns at once, leaving the rest of the pipe unread.
ReadAllLimitedIter(out, pipe, limit) ==
    LET n == Min(Len(pipe), ReadBuf)
        lim == EffLimit(limit)
    IN  IF n = 0
        THEN [out |-> out, pipe |-> pipe, status |-> "eof"]
        ELSE IF Len(out) + n > lim
        THEN [out |-> out \o SubSeq(pipe, 1, lim - Len(out)),
              pipe |-> SubSeq(pipe, n + 1, Len(pipe)), status |-> "truncated"]
        ELSE [out |-> out \o SubSeq(pipe, 1, n),
              pipe |-> SubSeq(pipe, n + 1, Len(pipe)), status |-> "more"]

ChildClosed == cState \in {"exited", "killed"}

RunInit ==
    /\ rPc = "call"
    /\ rCmd \in RunCmds
    /\ rLimit \in RunLimits
    /\ rOut = <<>> /\ rErrOut = <<>>
    /\ rOutTrunc = FALSE /\ rErrTrunc = FALSE
    /\ rPipes = 0
    /\ rCtx = "none"
    /\ rResult = ZeroResult
    /\ rErr = ""
    /\ cState = "none"
    /\ cExit \in ExitCodes
    /\ cOutPlan \in 0..MaxWrite
    /\ cErrPlan \in 0..MaxWrite
    /\ cOutLeft = cOutPlan /\ cErrLeft = cErrPlan
    /\ cPipeOut = <<>> /\ cPipeErr = <<>>
    /\ cCtxKill = FALSE

\* the path check, then context.WithTimeout
RunValidate ==
    /\ rPc = "call"
    /\ IF ~IsAbsoluteCmd(rCmd)
       THEN /\ rPc' = "returned"
            /\ rErr' = "command must be absolute"
            /\ UNCHANGED rCtx
       ELSE /\ rPc' = "pipes"
            /\ rCtx' = "armed"
            /\ UNCHANGED rErr
    /\ UNCHANGED <<rCmd, rLimit, rOut, rErrOut, rOutTrunc, rErrTrunc, rPipes,
                   rResult, childVars>>
    /\ RunFrame

\* cmd.StdoutPipe and cmd.StderrPipe succeed
RunPipesOk ==
    /\ rPc = "pipes"
    /\ rPipes' = 2
    /\ rPc' = "start"
    /\ UNCHANGED <<rCmd, rLimit, rOut, rErrOut, rOutTrunc, rErrTrunc, rCtx,
                   rResult, rErr, childVars>>
    /\ RunFrame

\* one of them fails: Run returns the error (the deferred cancel runs)
RunPipesFail ==
    /\ rPc = "pipes"
    /\ \E opened \in {0, 1} : rPipes' = opened
    /\ rPc' = "returned"
    /\ rErr' = "pipe"
    /\ rCtx' = IF rCtx = "armed" THEN "cancelled" ELSE rCtx
    /\ UNCHANGED <<rCmd, rLimit, rOut, rErrOut, rOutTrunc, rErrTrunc, rResult,
                   childVars>>
    /\ RunFrame

\* cmd.Start succeeds: the child runs
RunStartOk ==
    /\ rPc = "start"
    /\ rCtx = "armed"
    /\ cState' = "running"
    /\ rPc' = "readOut"
    /\ UNCHANGED <<rCmd, rLimit, rOut, rErrOut, rOutTrunc, rErrTrunc, rPipes,
                   rCtx, rResult, rErr>>
    /\ UNCHANGED <<cExit, cOutPlan, cErrPlan, cOutLeft, cErrLeft, cPipeOut,
                   cPipeErr, cCtxKill>>
    /\ RunFrame

\* cmd.Start fails (the context is done already, or sudo cannot be run)
RunStartFail ==
    /\ rPc = "start"
    /\ rPc' = "returned"
    /\ rErr' = "start"
    /\ rCtx' = IF rCtx = "armed" THEN "cancelled" ELSE rCtx
    /\ UNCHANGED <<rCmd, rLimit, rOut, rErrOut, rOutTrunc, rErrTrunc, rPipes,
                   rResult, childVars>>
    /\ RunFrame

\* config.ReadAllLimited(stdoutPipe, limits.MaxOutputBytes), one Read
RunReadStdout ==
    /\ rPc = "readOut"
    /\ cPipeOut # <<>> \/ ChildClosed
    /\ LET r == ReadAllLimitedIter(rOut, cPipeOut, rLimit)
       IN  /\ rOut' = r.out
           /\ cPipeOut' = r.pipe
           /\ rOutTrunc' = (r.status = "truncated")
           /\ rPc' = IF r.status = "more" THEN "readOut" ELSE "readErr"
    /\ UNCHANGED <<rCmd, rLimit, rErrOut, rErrTrunc, rPipes, rCtx, rResult, rErr>>
    /\ UNCHANGED <<cState, cExit, cOutPlan, cErrPlan, cOutLeft, cErrLeft,
                   cPipeErr, cCtxKill>>
    /\ RunFrame

\* config.ReadAllLimited(stderrPipe, limits.MaxOutputBytes), one Read
RunReadStderr ==
    /\ rPc = "readErr"
    /\ cPipeErr # <<>> \/ ChildClosed
    /\ LET r == ReadAllLimitedIter(rErrOut, cPipeErr, rLimit)
       IN  /\ rErrOut' = r.out
           /\ cPipeErr' = r.pipe
           /\ rErrTrunc' = (r.status = "truncated")
           /\ rPc' = IF r.status = "more" THEN "readErr" ELSE "wait"
    /\ UNCHANGED <<rCmd, rLimit, rOut, rOutTrunc, rPipes, rCtx, rResult, rErr>>
    /\ UNCHANGED <<cState, cExit, cOutPlan, cErrPlan, cOutLeft, cErrLeft,
                   cPipeOut, cCtxKill>>
    /\ RunFrame

\* cmd.Wait, the exit-code mapping and the Result
RunWait ==
    /\ rPc = "wait"
    /\ ChildClosed
    /\ rResult' = [Stdout |-> rOut, Stderr |-> rErrOut,
                   ExitCode |-> ExitCodeOf(CmdWaitErr(cState, cExit, cCtxKill)),
                   Truncated |-> (rOutTrunc \/ rErrTrunc)]
    /\ rPc' = "returned"
    /\ rCtx' = IF rCtx = "armed" THEN "cancelled" ELSE rCtx
    /\ UNCHANGED <<rCmd, rLimit, rOut, rErrOut, rOutTrunc, rErrTrunc, rPipes,
                   rErr, childVars>>
    /\ RunFrame

\* the deadline of execCtx passes: exec kills the process
RunDeadline ==
    /\ rCtx = "armed"
    /\ rPc \in {"pipes", "start", "readOut", "readErr", "wait"}
    /\ rCtx' = "done"
    /\ cState' = IF cState = "running" THEN "killed" ELSE cState
    /\ cCtxKill' = (cState = "exited")
    /\ UNCHANGED <<rPc, rCmd, rLimit, rOut, rErrOut, rOutTrunc, rErrTrunc, rPipes,
                   rResult, rErr>>
    /\ UNCHANGED <<cExit, cOutPlan, cErrPlan, cOutLeft, cErrLeft, cPipeOut,
                   cPipeErr>>
    /\ RunFrame

\* the child writes its next byte to stdout; it blocks while the pipe is full
ChildWriteOut ==
    /\ cState = "running"
    /\ cOutLeft > 0
    /\ Len(cPipeOut) < PipeCap
    /\ cPipeOut' = Append(cPipeOut, <<"o", cOutPlan - cOutLeft + 1>>)
    /\ cOutLeft' = cOutLeft - 1
    /\ UNCHANGED <<runVars, cState, cExit, cOutPlan, cErrPlan, cErrLeft,
                   cPipeErr, cCtxKill>>
    /\ RunFrame

\* the child writes its next byte to stderr
ChildWriteErr ==
    /\ cState = "running"
    /\ cErrLeft > 0
    /\ Len(cPipeErr) < PipeCap
    /\ cPipeErr' = Append(cPipeErr, <<"e", cErrPlan - cErrLeft + 1>>)
    /\ cErrLeft' = cErrLeft - 1
    /\ UNCHANGED <<runVars, cState, cExit, cOutPlan, cErrPlan, cOutLeft,
                   cPipeOut, cCtxKill>>
    /\ RunFrame

\* the child has written everything and exits with its exit code
ChildExit ==
    /\ cState = "running"
    /\ cOutLeft = 0 /\ cErrLeft = 0
    /\ cState' = "exited"
    /\ UNCHANGED <<runVars, cExit, cOutPlan, cErrPlan, cOutLeft, cErrLeft,
                   cPipeOut, cPipeErr, cCtxKill>>
    /\ RunFrame

\* every step of Run and of its child other than the deadline
RunProgress ==
    \/ RunValidate \/ RunPipesOk \/ RunPipesFail \/ RunStartOk \/ RunStartFail
    \/ RunReadStdout \/ RunReadStderr \/ RunWait
    \/ ChildWriteOut \/ ChildWriteErr \/ ChildExit

RunNext ==
    \/ RunValidate
    \/ RunPipesOk
    \/ RunPipesFail
    \/ RunStartOk
    \/ RunStartFail
    \/ RunReadStdout
    \/ RunReadStderr
    \/ RunWait
    \/ RunDeadline
    \/ ChildWriteOut
    \/ ChildWriteErr
    \/ ChildExit

(***************************************************************************)
(* Claims about execwrap.Run.                                              *)
(***************************************************************************)
RunCap == EffLimit(rLimit)

\* the child has been spawned and the deadline has not fired
RunLive == cState # "none" /\ rCtx # "done"

\* C1: a child that writes more than the cap to one stream (here stdout,
\* with nothing on stderr): Run returns the first cap bytes of that stream
\* with truncated = true, the child exits normally, and until Run has
\* returned some step other than the deadline is possible (the call does not
\* wait for the deadline), however much more than the cap the child writes.
C1_RunTruncatesWithoutHang ==
    (RunLive /\ cOutPlan > RunCap /\ cErrPlan = 0) =>
        /\ rPc = "returned" =>
              /\ rErr = ""
              /\ rResult.Truncated
              /\ rResult.Stdout = StreamBytes("o", RunCap)
              /\ cState = "exited"
        /\ rPc # "returned" => ENABLED RunProgress

\* C2: a child whose output stays strictly below the cap on each stream: Run
\* returns the exact stdout and stderr, the exit code of the child and
\* truncated = false, and until then some step other than the deadline is
\* possible, whatever the order of the child's writes.
C2_RunExactBelowCap ==
    (RunLive /\ cOutPlan < RunCap /\ cErrPlan < RunCap) =>
        /\ rPc = "returned" =>
              /\ rErr = ""
              /\ rResult = [Stdout |-> StreamBytes("o", cOutPlan),
                            Stderr |-> StreamBytes("e", cErrPlan),
                            ExitCode |-> cExit, Truncated |-> FALSE]
        /\ rPc # "returned" => ENABLED RunProgress

\* C6: with an empty or non-absolute path Run returns the validation error
\* and no process, pipe or deadline is ever created.
C6_RunRejectsBeforeSpawn ==
    (rCmd = <<>> \/ rCmd[1] # "/") =>
        /\ cState = "none"
        /\ rPipes = 0
        /\ rCtx = "none"
        /\ rPc \in {"call", "returned"}
        /\ rPc = "returned" => rErr = "command must be absolute" /\ rResult = ZeroResult

C6_Witness == rPc = "returned" /\ rCmd = <<"z">> /\ rErr = "command must be absolute"

\* C18: when Run returns a result for a started process, the exit code is
\* 124 if the deadline ended the process, and otherwise the exit code the
\* process exited with (0 when it exited cleanly).
C18_ExitCodeMapping ==
    (rPc = "returned" /\ rErr = "" /\ ChildClosed) =>
        rResult.ExitCode = IF cState = "killed" \/ cCtxKill THEN 124 ELSE cExit

(***************************************************************************)
(* limitedBuffer and runZfsPipeline.                                       *)
(***************************************************************************)
PipeLimits == {0, 2}
SendExitCodes == {0, 1, 3}
RecvExitCodes == {0, 2, 4}
\* most stderr bytes one process of the pipeline writes
MaxPipeErr == 2

\* strings.TrimSpace on a sequence of bytes: leading and trailing " " removed
RECURSIVE TrimLeft(_)
TrimLeft(s) == IF s # <<>> /\ s[1] = " " THEN TrimLeft(Tail(s)) ELSE s

RECURSIVE TrimRight(_)
TrimRight(s) ==
    IF s # <<>> /\ s[Len(s)] = " " THEN TrimRight(SubSeq(s, 1, Len(s) - 1)) ELSE s

TrimSpace(s) == TrimRight(TrimLeft(s))

\* a Write that keeps nothing of a chunk that does not fit whole
LimitedWriteWholeChunks(l, p) ==
    LET limit == IF l.limit <= 0 THEN DefaultLimit ELSE l.limit
    IN  IF Len(p) > limit - Len(l.buf)
        THEN [buf |-> l.buf, limit |-> limit, truncated |-> TRUE]
        ELSE [buf |-> l.buf \o p, limit |-> limit, truncated |-> l.truncated]

\* limitedBuffer.Write(p) on l = [buf, limit, truncated]
LimitedWrite(l, p) ==
    LET limit == IF l.limit <= 0 THEN DefaultLimit ELSE l.limit
        remain == limit - Len(l.buf)
    IN  IF Len(l.buf) >= limit
        THEN [buf |-> l.buf, limit |-> limit, truncated |-> TRUE]
        ELSE IF Len(p) > remain
        THEN [buf |-> l.buf \o SubSeq(p, 1, remain), limit |-> limit,
              truncated |-> TRUE]
        ELSE [buf |-> l.buf \o p, limit |-> limit, truncated |-> l.truncated]

\* exitCodeFromErr
exitCodeFromErr(err) ==
    IF err.kind = "nil" THEN 0
    ELSE IF err.kind = "exit" THEN err.code
    ELSE IF err.kind = "deadline" THEN 124
    ELSE 1

\* the producer's code wins when both are non-zero
CombinedExitProducerFirst(sendExitCode, recvExitCode) ==
    IF sendExitCode # 0 THEN sendExitCode ELSE recvExitCode

\* exitCode of runZfsPipeline: sendExit if non-zero, then overwritten by
\* recvExit if that is non-zero
CombinedExit(sendExitCode, recvExitCode) ==
    LET afterSend == IF sendExitCode # 0 THEN sendExitCode ELSE 0
    IN  IF recvExitCode # 0 THEN recvExitCode ELSE afterSend

\* most bytes the producer writes to its stdout
MaxPipeData == 5
SendOutPlans == {0, MaxPipeData}
\* bytes a process of the pipeline writes to its stderr
StderrPlans == {0, MaxPipeErr}
\* a goroutine of exec that copies a stream: not started
NoCopy == [state |-> "none", held |-> 0]

\* the statements of runZfsPipeline in an order that closes the write end
\* before it waits for the producer
NextPcCloseFirst(pc) ==
    CASE pc = "startRecv"   -> "startSend"
      [] pc = "startSend"   -> "closeWriter"
      [] pc = "closeWriter" -> "waitSend"
      [] pc = "waitSend"    -> "waitRecv"
      [] pc = "waitRecv"    -> "closeReader"
      [] OTHER              -> "returned"

\* the statements of runZfsPipeline in program order: recvCmd.Start,
\* sendCmd.Start, sendCmd.Wait, writer.Close, recvCmd.Wait, reader.Close
NextPc(pc) ==
    CASE pc = "startRecv"   -> "startSend"
      [] pc = "startSend"   -> "waitSend"
      [] pc = "waitSend"    -> "closeWriter"
      [] pc = "closeWriter" -> "waitRecv"
      [] pc = "waitRecv"    -> "closeReader"
      [] OTHER              -> "returned"

\* a pipeline that returns no error once both processes have been waited for
ReturnedErrNever(sendErr, recvErr, msg) == <<>>

\* the error runZfsPipeline returns after both Waits: fmt.Errorf(msg) when
\* sendErr != nil || recvErr != nil, and nil otherwise
ReturnedErr(sendErr, recvErr, msg) ==
    IF sendErr # ErrNil \/ recvErr # ErrNil THEN msg ELSE <<>>

\* an end of the in-memory pipe that is left as it is
KeepPipeEnd(end) == end

\* writer.Close() / reader.Close() on an end of the in-memory pipe
ClosePipeEnd(end) == "closed"

PipeIdle ==
    /\ pPc = "idle" /\ pLimit = 0 /\ pCtx = "none"
    /\ pWriter = "none" /\ pReader = "none" /\ pEvents = <<>>
    /\ pErrBuf = [buf |-> <<>>, limit |-> 0, truncated |-> FALSE]
    /\ pSendErr = ErrNil /\ pRecvErr = ErrNil
    /\ pResult = ZeroResult /\ pErr = <<>>
    /\ sendState = "none" /\ sendExit = 0 /\ sendErrLeft = 0
    /\ recvState = "none" /\ recvExit = 0 /\ recvErrLeft = 0
    /\ sendOutLeft = 0 /\ sendPipe = 0 /\ recvPipe = 0 /\ recvEarly = FALSE
    /\ sendCopy = NoCopy /\ recvCopy = NoCopy

PipeInit ==
    /\ pPc = "call"
    /\ pLimit \in PipeLimits
    /\ pCtx = "none"
    /\ pWriter = "none" /\ pReader = "none" /\ pEvents = <<>>
    /\ pErrBuf = [buf |-> <<>>, limit |-> 0, truncated |-> FALSE]
    /\ pSendErr = ErrNil /\ pRecvErr = ErrNil
    /\ pResult = ZeroResult /\ pErr = <<>>
    /\ sendState = "none" /\ sendExit \in SendExitCodes
    /\ sendErrLeft \in StderrPlans
    /\ recvState = "none" /\ recvExit \in RecvExitCodes
    /\ recvErrLeft \in StderrPlans
    /\ sendOutLeft \in SendOutPlans /\ sendPipe = 0 /\ recvPipe = 0
    /\ recvEarly \in BOOLEAN
    /\ sendCopy = NoCopy /\ recvCopy = NoCopy

\* the limit, the deadline, io.Pipe() and the shared stderr buffer
PipeSetup ==
    /\ pPc = "call"
    /\ pCtx' = "armed"
    /\ pWriter' = "open" /\ pReader' = "open"
    /\ pErrBuf' = [buf |-> <<>>, limit |-> EffLimit(pLimit), truncated |-> FALSE]
    /\ pPc' = "startRecv"
    /\ UNCHANGED <<pLimit, pEvents, pSendErr, pRecvErr, pResult, pErr, procVars>>
    /\ UNCHANGED flowVars
    /\ PipeFrame

\* recvCmd.Start succeeds
PipeStartRecvOk ==
    /\ pPc = "startRecv"
    /\ pCtx = "armed"
    /\ recvState' = "running"
    /\ pEvents' = Append(pEvents, "recvStarted")
    /\ pPc' = NextPc(pPc)
    /\ UNCHANGED <<pLimit, pCtx, pWriter, pReader, pErrBuf, pSendErr, pRecvErr,
                   pResult, pErr>>
    /\ UNCHANGED <<sendState, sendExit, sendErrLeft, recvExit, recvErrLeft>>
    /\ recvCopy' = [state |-> "reading", held |-> 0]
    /\ UNCHANGED <<sendOutLeft, sendPipe, sendCopy, recvPipe, recvEarly>>
    /\ PipeFrame

\* recvCmd.Start fails: both ends are closed, error result
PipeStartRecvFail ==
    /\ pPc = "startRecv"
    /\ pWriter' = ClosePipeEnd(pWriter) /\ pReader' = ClosePipeEnd(pReader)
    /\ pEvents' = pEvents \o <<"writerClosed", "readerClosed">>
    /\ pResult' = [Stdout |-> <<>>, Stderr |-> <<"start error">>,
                   ExitCode |-> 1, Truncated |-> FALSE]
    /\ pErr' = <<"start error">>
    /\ pCtx' = IF pCtx = "armed" THEN "cancelled" ELSE pCtx
    /\ pPc' = "returned"
    /\ UNCHANGED <<pLimit, pErrBuf, pSendErr, pRecvErr, procVars>>
    /\ UNCHANGED flowVars
    /\ PipeFrame

\* sendCmd.Start succeeds
PipeStartSendOk ==
    /\ pPc = "startSend"
    /\ pCtx = "armed"
    /\ sendState' = "running"
    /\ pEvents' = Append(pEvents, "sendStarted")
    /\ pPc' = NextPc(pPc)
    /\ UNCHANGED <<pLimit, pCtx, pWriter, pReader, pErrBuf, pSendErr, pRecvErr,
                   pResult, pErr>>
    /\ UNCHANGED <<sendExit, sendErrLeft, recvState, recvExit, recvErrLeft>>
    /\ sendCopy' = [state |-> "reading", held |-> 0]
    /\ UNCHANGED <<sendOutLeft, sendPipe, recvCopy, recvPipe, recvEarly>>
    /\ PipeFrame

\* sendCmd.Start fails: both ends are closed, the consumer is killed
PipeStartSendFail ==
    /\ pPc = "startSend"
    /\ pWriter' = ClosePipeEnd(pWriter) /\ pReader' = ClosePipeEnd(pReader)
    /\ recvState' = IF recvState = "running" THEN "killed" ELSE recvState
    /\ pEvents' = pEvents \o <<"writerClosed", "readerClosed", "recvKilled">>
    /\ pResult' = [Stdout |-> <<>>, Stderr |-> <<"start error">>,
                   ExitCode |-> 1, Truncated |-> FALSE]
    /\ pErr' = <<"start error">>
    /\ pCtx' = IF pCtx = "armed" THEN "cancelled" ELSE pCtx
    /\ pPc' = "returned"
    /\ UNCHANGED <<pLimit, pErrBuf, pSendErr, pRecvErr>>
    /\ UNCHANGED <<sendState, sendExit, sendErrLeft, recvExit, recvErrLeft>>
    /\ recvCopy' = [state |-> "done", held |-> 0]
    /\ UNCHANGED <<sendOutLeft, sendPipe, sendCopy, recvPipe, recvEarly>>
    /\ PipeFrame

\* sendErr := sendCmd.Wait(): the producer has exited and the goroutine
\* copying its stdout has returned
PipeWaitSend ==
    /\ pPc = "waitSend"
    /\ sendState \in {"exited", "killed"}
    /\ sendCopy.state = "done"
    /\ pSendErr' = CmdWaitErr(sendState, sendExit, FALSE)
    /\ pEvents' = Append(pEvents, "sendWaited")
    /\ pPc' = NextPc(pPc)
    /\ UNCHANGED <<pLimit, pCtx, pWriter, pReader, pErrBuf, pRecvErr, pResult,
                   pErr, procVars>>
    /\ UNCHANGED flowVars
    /\ PipeFrame

\* writer.Close()
PipeCloseWriter ==
    /\ pPc = "closeWriter"
    /\ pWriter' = ClosePipeEnd(pWriter)
    /\ pEvents' = Append(pEvents, "writerClosed")
    /\ pPc' = NextPc(pPc)
    /\ UNCHANGED <<pLimit, pCtx, pReader, pErrBuf, pSendErr, pRecvErr, pResult,
                   pErr, procVars>>
    /\ UNCHANGED flowVars
    /\ PipeFrame

\* recvErr := recvCmd.Wait(): the consumer has exited and the goroutine
\* copying to its stdin has returned
PipeWaitRecv ==
    /\ pPc = "waitRecv"
    /\ recvState \in {"exited", "killed"}
    /\ recvCopy.state = "done"
    /\ pRecvErr' = CmdWaitErr(recvState, recvExit, FALSE)
    /\ pEvents' = Append(pEvents, "recvWaited")
    /\ pPc' = NextPc(pPc)
    /\ UNCHANGED <<pLimit, pCtx, pWriter, pReader, pErrBuf, pSendErr, pResult,
                   pErr, procVars>>
    /\ UNCHANGED flowVars
    /\ PipeFrame

\* reader.Close(), the combined exit code and the result
PipeFinish ==
    /\ pPc = "closeReader"
    /\ pReader' = ClosePipeEnd(pReader)
    /\ pEvents' = Append(pEvents, "readerClosed")
    /\ LET exitCode == CombinedExit(exitCodeFromErr(pSendErr),
                                    exitCodeFromErr(pRecvErr))
           trimmed == TrimSpace(pErrBuf.buf)
           msg == IF trimmed = <<>> THEN <<"zfs replication failed">> ELSE trimmed
       IN  IF pSendErr # ErrNil \/ pRecvErr # ErrNil
           THEN /\ pResult' = [Stdout |-> <<>>, Stderr |-> msg,
                               ExitCode |-> exitCode,
                               Truncated |-> pErrBuf.truncated]
                /\ pErr' = ReturnedErr(pSendErr, pRecvErr, msg)
           ELSE /\ pResult' = [Stdout |-> <<>>, Stderr |-> pErrBuf.buf,
                               ExitCode |-> exitCode,
                               Truncated |-> pErrBuf.truncated]
                /\ pErr' = ReturnedErr(pSendErr, pRecvErr, msg)
    /\ pCtx' = IF pCtx = "armed" THEN "cancelled" ELSE pCtx
    /\ pPc' = "returned"
    /\ UNCHANGED <<pLimit, pWriter, pErrBuf, pSendErr, pRecvErr, procVars>>
    /\ UNCHANGED flowVars
    /\ PipeFrame

\* the shared deadline passes: exec kills both processes
PipeDeadline ==
    /\ pCtx = "armed"
    /\ pPc # "returned"
    /\ pCtx' = "done"
    /\ sendState' = IF sendState = "running" THEN "killed" ELSE sendState
    /\ recvState' = IF recvState = "running" THEN "killed" ELSE recvState
    /\ UNCHANGED <<pPc, pLimit, pWriter, pReader, pEvents, pErrBuf, pSendErr,
                   pRecvErr, pResult, pErr>>
    /\ UNCHANGED <<sendExit, sendErrLeft, recvExit, recvErrLeft>>
    /\ UNCHANGED flowVars
    /\ PipeFrame

\* the producer writes a byte to its stderr, which exec copies to errBuf
SendStderr ==
    /\ sendState = "running"
    /\ sendErrLeft > 0
    /\ pErrBuf' = LimitedWrite(pErrBuf, << <<"s", sendErrLeft>> >>)
    /\ sendErrLeft' = sendErrLeft - 1
    /\ UNCHANGED <<pPc, pLimit, pCtx, pWriter, pReader, pEvents, pSendErr,
                   pRecvErr, pResult, pErr>>
    /\ UNCHANGED <<sendState, sendExit, recvState, recvExit, recvErrLeft>>
    /\ UNCHANGED flowVars
    /\ PipeFrame

\* the consumer writes a byte to its stderr
RecvStderr ==
    /\ recvState = "running"
    /\ recvErrLeft > 0
    /\ pErrBuf' = LimitedWrite(pErrBuf, << <<"r", recvErrLeft>> >>)
    /\ recvErrLeft' = recvErrLeft - 1
    /\ UNCHANGED <<pPc, pLimit, pCtx, pWriter, pReader, pEvents, pSendErr,
                   pRecvErr, pResult, pErr>>
    /\ UNCHANGED <<sendState, sendExit, sendErrLeft, recvState, recvExit>>
    /\ UNCHANGED flowVars
    /\ PipeFrame

\* the producer has written everything and exits with its exit code
SendExit ==
    /\ sendState = "running"
    /\ sendErrLeft = 0
    /\ sendOutLeft = 0
    /\ sendState' = "exited"
    /\ UNCHANGED <<pipeVars, sendExit, sendErrLeft, recvState, recvExit,
                   recvErrLeft>>
    /\ UNCHANGED flowVars
    /\ PipeFrame

\* the consumer exits with its exit code: at the end of its input, or
\* earlier when it does not wait for it
RecvExit ==
    /\ recvState = "running"
    /\ recvErrLeft = 0
    /\ recvEarly \/ (recvPipe = 0 /\ recvCopy.state = "done")
    /\ recvState' = "exited"
    /\ UNCHANGED <<pipeVars, sendState, sendExit, sendErrLeft, recvExit,
                   recvErrLeft>>
    /\ UNCHANGED flowVars
    /\ PipeFrame

\* the producer writes a byte to its stdout; it blocks while the pipe is full
SendStdout ==
    /\ sendState = "running"
    /\ sendOutLeft > 0
    /\ sendPipe < PipeCap
    /\ sendOutLeft' = sendOutLeft - 1
    /\ sendPipe' = sendPipe + 1
    /\ UNCHANGED <<sendCopy, recvCopy, recvPipe, recvEarly>>
    /\ UNCHANGED <<pipeVars, procVars>>
    /\ PipeFrame

\* the goroutine of sendCmd reads the producer's stdout pipe: bytes to pass
\* to writer.Write, or the end of the stream once the producer is gone
SendCopyRead ==
    /\ sendCopy.state = "reading"
    /\ IF sendPipe > 0
       THEN /\ sendCopy' = [state |-> "writing", held |-> Min(sendPipe, ReadBuf)]
            /\ sendPipe' = sendPipe - Min(sendPipe, ReadBuf)
       ELSE /\ sendState \in {"exited", "killed"}
            /\ sendCopy' = [state |-> "done", held |-> 0]
            /\ UNCHANGED sendPipe
    /\ UNCHANGED <<sendOutLeft, recvCopy, recvPipe, recvEarly>>
    /\ UNCHANGED <<pipeVars, procVars>>
    /\ PipeFrame

\* the goroutine of recvCmd reads the in-memory pipe: it takes the bytes of
\* the writer.Write in progress, which then returns, or sees the end of
\* the stream once the write end is closed
RecvCopyRead ==
    /\ recvCopy.state = "reading"
    /\ IF sendCopy.state = "writing"
       THEN /\ recvCopy' = [state |-> "writing", held |-> sendCopy.held]
            /\ sendCopy' = [state |-> "reading", held |-> 0]
       ELSE /\ pWriter = "closed"
            /\ recvCopy' = [state |-> "done", held |-> 0]
            /\ UNCHANGED sendCopy
    /\ UNCHANGED <<sendOutLeft, sendPipe, recvPipe, recvEarly>>
    /\ UNCHANGED <<pipeVars, procVars>>
    /\ PipeFrame

\* the goroutine of recvCmd writes to the consumer's stdin pipe; when the
\* consumer is gone the write fails and the goroutine returns
RecvCopyWrite ==
    /\ recvCopy.state = "writing"
    /\ IF recvState \in {"exited", "killed"}
       THEN /\ recvCopy' = [state |-> "done", held |-> 0]
            /\ UNCHANGED recvPipe
       ELSE /\ recvPipe < PipeCap
            /\ LET n == Min(recvCopy.held, PipeCap - recvPipe)
               IN  /\ recvPipe' = recvPipe + n
                   /\ recvCopy' = IF n = recvCopy.held
                                  THEN [state |-> "reading", held |-> 0]
                                  ELSE [state |-> "writing",
                                        held |-> recvCopy.held - n]
    /\ UNCHANGED <<sendOutLeft, sendPipe, sendCopy, recvEarly>>
    /\ UNCHANGED <<pipeVars, procVars>>
    /\ PipeFrame

\* the consumer reads a byte of its stdin
RecvRead ==
    /\ recvState = "running"
    /\ recvPipe > 0
    /\ recvPipe' = recvPipe - 1
    /\ UNCHANGED <<sendOutLeft, sendPipe, sendCopy, recvCopy, recvEarly>>
    /\ UNCHANGED <<pipeVars, procVars>>
    /\ PipeFrame

PipeNext ==
    \/ PipeSetup
    \/ PipeStartRecvOk
    \/ PipeStartRecvFail
    \/ PipeStartSendOk
    \/ PipeStartSendFail
    \/ PipeWaitSend
    \/ PipeCloseWriter
    \/ PipeWaitRecv
    \/ PipeFinish
    \/ PipeDeadline
    \/ SendStderr
    \/ RecvStderr
    \/ SendExit
    \/ RecvExit
    \/ SendStdout
    \/ SendCopyRead
    \/ RecvCopyRead
    \/ RecvCopyWrite
    \/ RecvRead

(***************************************************************************)
(* Claims about runZfsPipeline.                                            *)
(***************************************************************************)
\* both processes were started and waited for, and the call has returned
PipeCompleted == pPc = "returned" /\ sendState # "none"

\* C3 as stated: the combined exit code is the producer's mapped exit code
\* when that is non-zero, and the consumer's otherwise.
C3_ProducerCodeWins ==
    PipeCompleted =>
        pResult.ExitCode =
            IF exitCodeFromErr(pSendErr) # 0
            THEN exitCodeFromErr(pSendErr) ELSE exitCodeFromErr(pRecvErr)

\* C3 amended: the combined exit code is the consumer's mapped exit code
\* when that is non-zero, and the producer's otherwise (producer 1 /
\* consumer 0 gives 1, producer 0 / consumer 2 gives 2, producer 3 /
\* consumer 4 gives 4).
C3_ConsumerCodeWins ==
    PipeCompleted =>
        /\ pResult.ExitCode =
              IF exitCodeFromErr(pRecvErr) # 0
              THEN exitCodeFromErr(pRecvErr) ELSE exitCodeFromErr(pSendErr)
        /\ (pSendErr = ErrExit(1) /\ pRecvErr = ErrNil) => pResult.ExitCode = 1
        /\ (pSendErr = ErrNil /\ pRecvErr = ErrExit(2)) => pResult.ExitCode = 2
        /\ (pSendErr = ErrExit(3) /\ pRecvErr = ErrExit(4)) => pResult.ExitCode = 4

C3_Witness ==
    /\ PipeCompleted
    /\ pSendErr = ErrExit(3) /\ pRecvErr = ErrExit(4)
    /\ pResult.ExitCode = 4

\* the events of a pipeline run in which both processes start and nothing
\* is cut short
PipeOrder ==
    <<"recvStarted", "sendStarted", "sendWaited", "writerClosed", "recvWaited",
      "readerClosed">>

\* C19: in every pipeline run in which both processes start, the events so
\* far are a prefix of: consumer started, producer started, producer waited
\* for, write end closed, consumer waited for, read end closed; the
\* producer never runs without the consumer having been started, and the
\* write end is closed only after the producer has exited.
C19_PipelineOrder ==
    /\ sendState # "none" => recvState # "none"
    /\ sendState # "none" =>
          /\ IsPrefix(pEvents, PipeOrder)
          /\ pWriter = "closed" => sendState \in {"exited", "killed"}
          /\ pPc = "returned" => pEvents = PipeOrder

C19_Witness ==
    /\ pPc = "returned" /\ pEvents = PipeOrder
    /\ sendState = "exited" /\ recvState = "exited"

\* C20: every call of runZfsPipeline eventually returns.
C20_PipelineReturns == <>(pPc = "returned")

\* C21: when runPipeline has returned, both ends of the in-memory pipe are
\* closed, on the paths where a process could not be started as on the
\* path where both ran; when the consumer or the producer could not be
\* started, the result has exit code 1 and the text of the start error,
\* which is also the error returned.
C21_StartFailureClosesPipe ==
    pPc = "returned" =>
        /\ pWriter = "closed" /\ pReader = "closed"
        /\ sendState = "none" =>
              /\ pResult = [Stdout |-> <<>>, Stderr |-> <<"start error">>,
                            ExitCode |-> 1, Truncated |-> FALSE]
              /\ pErr = <<"start error">>

\* the producer could not be started after the consumer had been
C21_Witness ==
    /\ pPc = "returned" /\ sendState = "none" /\ recvState = "killed"
    /\ pWriter = "closed" /\ pReader = "closed"
    /\ pResult.ExitCode = 1

\* every step of a Run call or of a runPipeline call
ExecNext ==
    \/ RunNext
    \/ PipeNext

DefaultRuntimeSeconds == 120

Users == {"admin"}
JobRefs == 1..MaxJobs
JobIds == 0..MaxClock

PathZfs == <<"/", "s", "/", "z">>
PathZfsOther == <<"/", "u", "/", "z">>
PathOther == <<"/", "x", "/", "q">>

\* configurations: an alias map (name, target), an allowlist, limits
CfgAliases ==
    [AllowedCmds |-> <<PathZfs>>,
     Aliases |-> { << <<"a">>, PathZfs >>, << <<"b">>, <<"z">> >> },
     Unsafe |-> FALSE, MaxOutputBytes |-> 1, MaxRuntimeSeconds |-> 1]
CfgUnsafe ==
    [AllowedCmds |-> <<PathZfs, PathZfsOther>>,
     Aliases |-> {},
     Unsafe |-> TRUE, MaxOutputBytes |-> 0, MaxRuntimeSeconds |-> 0]
Configs == {CfgAliases, CfgUnsafe}

\* the command strings given to Start: "", "zfs list", "/sbin/zfs list",
\* "/x/q", the aliases "a" and "b", and the unknown name "q"
StartCmds ==
    { <<>>,
      <<"z", " ", "l">>,
      <<"/", "s", "/", "z", " ", "l">>,
      PathOther,
      <<"a">>,
      <<"b">>,
      <<"q">> }

\* the text of the error finishError deposits (two bytes)
ErrText == << <<"x", 1>>, <<"x", 2>> >>

NoJob ==
    [ID |-> -1, Cmd |-> <<>>, Args |-> <<>>, Start |-> -1, End |-> -1,
     ExitCode |-> 0, Done |-> FALSE, Output |-> <<>>, Truncated |-> FALSE,
     Limit |-> 0, User |-> "", buffer |-> <<>>]

NoProc ==
    [state |-> "none", exit |-> 0, outN |-> 0, errN |-> 0,
     pipeOut |-> <<>>, pipeErr |-> <<>>, readEnds |-> "none",
     ctxKill |-> FALSE]

NoReaders == [o |-> "none", e |-> "none", oChunk |-> <<>>, eChunk |-> <<>>]

\* the resolution of a bare name against the basenames of the allowlist
RECURSIVE ResolveBase(_, _, _, _)
ResolveBase(allowedCmds, i, name, resolved) ==
    IF i > Len(allowedCmds) THEN [path |-> resolved, err |-> ""]
    ELSE IF Base(allowedCmds[i]) = name
    THEN IF resolved # <<>> /\ resolved # allowedCmds[i]
         THEN [path |-> <<>>, err |-> "command alias is ambiguous"]
         ELSE ResolveBase(allowedCmds, i + 1, name, allowedCmds[i])
    ELSE ResolveBase(allowedCmds, i + 1, name, resolved)

\* parseCommand without the final rejection: a name that resolves to nothing
\* is passed on as the path
parseCommandNoCheck(cmd, cfg) ==
    LET fields == Fields(cmd)
    IN  IF Len(fields) = 0
        THEN [path |-> <<>>, args |-> <<>>, err |-> "empty command"]
        ELSE [path |-> fields[1], args |-> Tail(fields), err |-> ""]

\* parseCommand(cmd, cfg): [path, args, err]
parseCommand(cmd, cfg) ==
    LET fields == Fields(cmd)
        fail(e) == [path |-> <<>>, args |-> <<>>, err |-> e]
    IN  IF Len(fields) = 0 THEN fail("empty command")
        ELSE IF HasSlashPrefix(fields[1])
        THEN [path |-> fields[1], args |-> Tail(fields), err |-> ""]
        ELSE IF \E a \in cfg.Aliases : a[1] = fields[1]
        THEN LET target == (CHOOSE a \in cfg.Aliases : a[1] = fields[1])[2]
             IN  IF ~HasSlashPrefix(target) THEN fail("alias must be absolute")
                 ELSE [path |-> target, args |-> Tail(fields), err |-> ""]
        ELSE LET r == ResolveBase(cfg.AllowedCmds, 1, fields[1], <<>>)
             IN  IF r.err # "" THEN fail(r.err)
                 ELSE IF r.path # <<>>
                 THEN [path |-> r.path, args |-> Tail(fields), err |-> ""]
                 ELSE fail("command must be absolute or known alias")

\* an allowlist test that lets every command through
isAllowedAny(allowed, cmd) == TRUE

\* isAllowed(allowed, cmd)
isAllowed(allowed, cmd) == \E i \in 1..Len(allowed) : allowed[i] = cmd

\* newID(): "job-" followed by time.Now().UnixNano()
newID == clock

\* jobLimit(job)
jobLimit(j) == IF j.Limit <= 0 THEN DefaultLimit ELSE j.Limit

\* strings.Builder.WriteString at the end of the buffer
BufferWriteFront(buffer, chunk) == chunk \o buffer

BufferWrite(buffer, chunk) == buffer \o chunk

\* Job.append(chunk): the fields of the Job afterwards
append(j, chunk) ==
    IF Len(j.buffer) + Len(chunk) > jobLimit(j)
    THEN LET remaining == jobLimit(j) - Len(j.buffer)
         IN  IF remaining > 0
             THEN [j EXCEPT !.Truncated = TRUE,
                            !.buffer = BufferWrite(j.buffer, SubSeq(chunk, 1, remaining)),
                            !.Output = BufferWrite(j.buffer, SubSeq(chunk, 1, remaining))]
             ELSE [j EXCEPT !.Truncated = TRUE]
    ELSE [j EXCEPT !.buffer = BufferWrite(j.buffer, chunk),
                   !.Output = BufferWrite(j.buffer, chunk)]

\* a finishError that marks the Job done without depositing the text
finishErrorNoText(j, errText, now) ==
    [j EXCEPT !.Done = TRUE, !.End = now, !.ExitCode = 1]

\* Job.finishError(err): the fields of the Job afterwards
finishError(j, errText, now) ==
    [j EXCEPT !.Done = TRUE, !.End = now, !.ExitCode = 1,
              !.buffer = BufferWrite(j.buffer, errText),
              !.Output = BufferWrite(j.buffer, errText)]

\* Job.CommandString()
CommandString(j) == TrimSpace(JoinSpace(<<j.Cmd>> \o j.Args))

\* JobManager.Get(id): the Job, or 0 when there is none
Get(id) == IF id \in JobIds THEN jobs[id] ELSE 0

FreeRefs == {r \in JobRefs : jPc[r] = "free"}

\* wg.Wait() has nothing to wait for
ReadersDoneSkipped(r) == TRUE

\* wg.Wait(): both readStream tasks have returned
ReadersDone(r) == jReaders[r].o = "done" /\ jReaders[r].e = "done"

\* the viewers of streamJob, and a viewer that has not made its request
Viewers == {1, 2}
NoView ==
    [pc |-> "idle", job |-> 0, initial |-> <<>>, ch |-> <<>>, got |-> <<>>,
     offered |-> <<>>, dropped |-> FALSE]

\* the contexts a caller of Start can pass: one that is never cancelled and
\* one that the caller can cancel
Ctxs == {"background", "caller"}

\* a send that makes room by discarding the oldest chunk
trySendEvict(q, chunk) ==
    IF Len(q) < ChanCap THEN Append(q, chunk) ELSE Append(Tail(q), chunk)

\* a send that puts the chunk in front of the pending ones
trySendFront(q, chunk) == IF Len(q) < ChanCap THEN <<chunk>> \o q ELSE q

\* select { case ch <- chunk: default: } on a channel holding q
trySend(q, chunk) == IF Len(q) < ChanCap THEN Append(q, chunk) ELSE q

\* Job.broadcast(chunk) of Job r: the viewers afterwards
broadcast(vw, r, chunk) ==
    [v \in Viewers |->
        IF vw[v].pc = "streaming" /\ vw[v].job = r
        THEN [vw[v] EXCEPT !.ch = trySend(@, chunk),
                           !.offered = Append(@, chunk),
                           !.dropped = @ \/ Len(vw[v].ch) >= ChanCap]
        ELSE vw[v]]

\* the part of chunk that Job.append writes to the buffer and broadcasts
appended(j, chunk) ==
    IF Len(j.buffer) + Len(chunk) > jobLimit(j)
    THEN IF jobLimit(j) - Len(j.buffer) > 0
         THEN SubSeq(chunk, 1, jobLimit(j) - Len(j.buffer))
         ELSE <<>>
    ELSE chunk

\* Job.append(chunk) of Job r: the viewers afterwards
appendBroadcast(vw, r, chunk) ==
    IF appended(job[r], chunk) # <<>>
    THEN broadcast(vw, r, appended(job[r], chunk))
    ELSE vw

JobsIdle ==
    /\ jmCfg = CfgAliases
    /\ jobs = [id \in JobIds |-> 0]
    /\ clock = 0
    /\ auditLog = <<>>
    /\ lastStart = [cmd |-> <<>>, user |-> "", err |-> "", ref |-> 0,
                    cfg |-> CfgAliases]
    /\ job = [r \in JobRefs |-> NoJob]
    /\ jPc = [r \in JobRefs |-> "free"]
    /\ jCtx = [r \in JobRefs |-> "none"]
    /\ jTimeout = [r \in JobRefs |-> 0]
    /\ jProc = [r \in JobRefs |-> NoProc]
    /\ jReaders = [r \in JobRefs |-> NoReaders]
    /\ jWaitErr = [r \in JobRefs |-> ErrNil]
    /\ jParent = [r \in JobRefs |-> "none"]
    /\ view = [v \in Viewers |-> NoView]

\* NewJobManager(cfg, auditFn)
JobsInit ==
    /\ jmCfg \in Configs
    /\ jobs = [id \in JobIds |-> 0]
    /\ clock = 0
    /\ auditLog = <<>>
    /\ lastStart = [cmd |-> <<>>, user |-> "", err |-> "", ref |-> 0,
                    cfg |-> CfgAliases]
    /\ job = [r \in JobRefs |-> NoJob]
    /\ jPc = [r \in JobRefs |-> "free"]
    /\ jCtx = [r \in JobRefs |-> "none"]
    /\ jTimeout = [r \in JobRefs |-> 0]
    /\ jProc = [r \in JobRefs |-> NoProc]
    /\ jReaders = [r \in JobRefs |-> NoReaders]
    /\ jWaitErr = [r \in JobRefs |-> ErrNil]
    /\ jParent = [r \in JobRefs |-> "none"]
    /\ view = [v \in Viewers |-> NoView]

\* the wall clock advances
Tick ==
    /\ clock < MaxClock
    /\ clock' = clock + 1
    /\ UNCHANGED <<jmCfg, jobs, auditLog, lastStart, jobVars>>
    /\ UNCHANGED viewVars
    /\ JobsFrame

\* JobManager.UpdateConfig(cfg)
UpdateConfig(cfg) ==
    /\ cfg # jmCfg
    /\ jmCfg' = cfg
    /\ UNCHANGED <<jobs, clock, auditLog, lastStart, jobVars>>
    /\ UNCHANGED viewVars
    /\ JobsFrame

\* JobManager.Start(ctx, user, command)
Start(ctx, user, command) ==
    LET cfg == jmCfg
        parsed == parseCommand(command, cfg)
        rejected(e) ==
            /\ lastStart' = [cmd |-> command, user |-> user, err |-> e, ref |-> 0,
                             cfg |-> cfg]
            /\ UNCHANGED <<jmCfg, jobs, clock, auditLog, jobVars, jParent>>
    IN  /\ IF parsed.err # "" THEN rejected(parsed.err)
           ELSE IF ~cfg.Unsafe /\ ~isAllowed(cfg.AllowedCmds, parsed.path)
           THEN rejected("command not in allowlist")
           ELSE /\ FreeRefs # {}
                /\ LET r == CHOOSE x \in FreeRefs : \A y \in FreeRefs : x <= y
                       id == newID
                   IN  /\ job' = [job EXCEPT ![r] =
                                    [NoJob EXCEPT !.ID = id, !.Cmd = parsed.path,
                                                  !.Args = parsed.args,
                                                  !.Start = clock,
                                                  !.Limit = cfg.MaxOutputBytes,
                                                  !.User = user]]
                       /\ jobs' = [jobs EXCEPT ![id] = r]
                       /\ jPc' = [jPc EXCEPT ![r] = "spawned"]
                       /\ jParent' = [jParent EXCEPT ![r] = ctx]
                       /\ lastStart' = [cmd |-> command, user |-> user,
                                        err |-> "", ref |-> r, cfg |-> cfg]
                /\ UNCHANGED <<jmCfg, clock, auditLog, jCtx, jTimeout, jProc,
                               jReaders, jWaitErr>>
        /\ UNCHANGED view
        /\ JobsFrame

\* the context handleCmdRun would pass if it bound the Job to its request
HandlerCtxOfRequest == "request"

\* the context handleCmdRun passes to Start: context.Background()
HandlerCtx == "background"

\* Server.handleCmdRun: the Start call of a POST request
handleCmdRun(user, command) == Start(HandlerCtx, user, command)

\* runJob: the configuration snapshot and the deadline, a child of the
\* context Start was given
RunJobBegin(r) ==
    /\ jPc[r] = "spawned"
    /\ jTimeout' = [jTimeout EXCEPT ![r] =
                      IF jmCfg.MaxRuntimeSeconds <= 0
                      THEN DefaultRuntimeSeconds ELSE jmCfg.MaxRuntimeSeconds]
    /\ jCtx' = [jCtx EXCEPT ![r] =
                  IF jParent[r] \in {"requestDone", "callerCancelled"}
                  THEN "parentCancelled" ELSE "armed"]
    /\ jPc' = [jPc EXCEPT ![r] = "exec"]
    /\ UNCHANGED <<jmVars, job, jProc, jReaders, jWaitErr>>
    /\ UNCHANGED viewVars
    /\ JobsFrame

\* runJob: cmd.StdoutPipe or cmd.StderrPipe fails: finishError, return
RunJobPipeFail(r) ==
    /\ jPc[r] = "exec"
    /\ job' = [job EXCEPT ![r] = finishError(job[r], ErrText, clock)]
    /\ jCtx' = [jCtx EXCEPT ![r] = IF @ = "armed" THEN "cancelled" ELSE @]
    /\ jPc' = [jPc EXCEPT ![r] = "end"]
    /\ jWaitErr' = [jWaitErr EXCEPT ![r] = ErrOther]
    /\ UNCHANGED <<jmVars, jTimeout, jProc, jReaders>>
    /\ view' = broadcast(view, r, ErrText)
    /\ UNCHANGED jParent
    /\ JobsFrame

\* runJob: cmd.Start fails: finishError, return
RunJobStartFail(r) ==
    /\ jPc[r] = "exec"
    /\ job' = [job EXCEPT ![r] = finishError(job[r], ErrText, clock)]
    /\ jCtx' = [jCtx EXCEPT ![r] = IF @ = "armed" THEN "cancelled" ELSE @]
    /\ jPc' = [jPc EXCEPT ![r] = "end"]
    /\ jProc' = [jProc EXCEPT ![r].readEnds = "closed"]
    /\ UNCHANGED <<jmVars, jTimeout, jReaders, jWaitErr>>
    /\ view' = broadcast(view, r, ErrText)
    /\ UNCHANGED jParent
    /\ JobsFrame

\* runJob: cmd.Start succeeds; the two readStream tasks are started
RunJobStartOk(r) ==
    /\ jPc[r] = "exec"
    /\ jCtx[r] = "armed"
    /\ jProc' = [jProc EXCEPT ![r] =
                    [NoProc EXCEPT !.state = "running", !.readEnds = "open"]]
    /\ jReaders' = [jReaders EXCEPT ![r] = [NoReaders EXCEPT !.o = "reading", !.e = "reading"]]
    /\ jPc' = [jPc EXCEPT ![r] = "running"]
    /\ UNCHANGED <<jmVars, job, jCtx, jTimeout, jWaitErr>>
    /\ UNCHANGED viewVars
    /\ JobsFrame

\* the process writes one more byte to stdout (outN counts them); it blocks
\* while the pipe is full
JobProcWriteOut(r) ==
    /\ jProc[r].state = "running"
    /\ jProc[r].outN < MaxJobWrite
    /\ Len(jProc[r].pipeOut) < PipeCap
    /\ jProc' = [jProc EXCEPT
                   ![r].pipeOut = Append(@, <<"o", jProc[r].outN + 1>>),
                   ![r].outN = @ + 1]
    /\ UNCHANGED <<jmVars, job, jPc, jCtx, jTimeout, jReaders, jWaitErr>>
    /\ UNCHANGED viewVars
    /\ JobsFrame

\* the process writes one more byte to stderr
JobProcWriteErr(r) ==
    /\ jProc[r].state = "running"
    /\ jProc[r].errN < MaxJobWrite
    /\ Len(jProc[r].pipeErr) < PipeCap
    /\ jProc' = [jProc EXCEPT
                   ![r].pipeErr = Append(@, <<"e", jProc[r].errN + 1>>),
                   ![r].errN = @ + 1]
    /\ UNCHANGED <<jmVars, job, jPc, jCtx, jTimeout, jReaders, jWaitErr>>
    /\ UNCHANGED viewVars
    /\ JobsFrame

\* the process exits with some exit code
JobProcExit(r, code) ==
    /\ jProc[r].state = "running"
    /\ jProc' = [jProc EXCEPT ![r].state = "exited", ![r].exit = code]
    /\ UNCHANGED <<jmVars, job, jPc, jCtx, jTimeout, jReaders, jWaitErr>>
    /\ UNCHANGED viewVars
    /\ JobsFrame

\* Job.readStream on stdout: reader.Read(buf).  A Read on a pipe that
\* cmd.Wait has closed fails, and so does a Read at the end of the stream:
\* the task returns.  Otherwise the task holds the chunk read.
ReadStdout(r) ==
    /\ jReaders[r].o = "reading"
    /\ jReaders[r].oChunk = <<>>
    /\ \/ jProc[r].readEnds = "closed"
       \/ jProc[r].pipeOut # <<>>
       \/ jProc[r].state \in {"exited", "killed"}
    /\ IF jProc[r].readEnds = "open" /\ jProc[r].pipeOut # <<>>
       THEN LET n == Min(Len(jProc[r].pipeOut), ReadBuf)
            IN  /\ jReaders' = [jReaders EXCEPT ![r].oChunk =
                                  SubSeq(jProc[r].pipeOut, 1, n)]
                /\ jProc' = [jProc EXCEPT ![r].pipeOut =
                                SubSeq(@, n + 1, Len(@))]
       ELSE /\ jReaders' = [jReaders EXCEPT ![r].o = "done"]
            /\ UNCHANGED jProc
    /\ UNCHANGED <<jmVars, job, jPc, jCtx, jTimeout, jWaitErr>>
    /\ UNCHANGED viewVars
    /\ JobsFrame

\* Job.readStream on stdout: job.append(chunk), under the Job's lock
AppendStdout(r) ==
    /\ jReaders[r].oChunk # <<>>
    /\ job' = [job EXCEPT ![r] = append(@, jReaders[r].oChunk)]
    /\ jReaders' = [jReaders EXCEPT ![r].oChunk = <<>>]
    /\ UNCHANGED <<jmVars, jPc, jCtx, jTimeout, jProc, jWaitErr>>
    /\ view' = appendBroadcast(view, r, jReaders[r].oChunk)
    /\ UNCHANGED jParent
    /\ JobsFrame

\* Job.readStream on stderr: reader.Read(buf)
ReadStderr(r) ==
    /\ jReaders[r].e = "reading"
    /\ jReaders[r].eChunk = <<>>
    /\ \/ jProc[r].readEnds = "closed"
       \/ jProc[r].pipeErr # <<>>
       \/ jProc[r].state \in {"exited", "killed"}
    /\ IF jProc[r].readEnds = "open" /\ jProc[r].pipeErr # <<>>
       THEN LET n == Min(Len(jProc[r].pipeErr), ReadBuf)
            IN  /\ jReaders' = [jReaders EXCEPT ![r].eChunk =
                                  SubSeq(jProc[r].pipeErr, 1, n)]
                /\ jProc' = [jProc EXCEPT ![r].pipeErr =
                                SubSeq(@, n + 1, Len(@))]
       ELSE /\ jReaders' = [jReaders EXCEPT ![r].e = "done"]
            /\ UNCHANGED jProc
    /\ UNCHANGED <<jmVars, job, jPc, jCtx, jTimeout, jWaitErr>>
    /\ UNCHANGED viewVars
    /\ JobsFrame

\* Job.readStream on stderr: job.append(chunk), under the Job's lock
AppendStderr(r) ==
    /\ jReaders[r].eChunk # <<>>
    /\ job' = [job EXCEPT ![r] = append(@, jReaders[r].eChunk)]
    /\ jReaders' = [jReaders EXCEPT ![r].eChunk = <<>>]
    /\ UNCHANGED <<jmVars, jPc, jCtx, jTimeout, jProc, jWaitErr>>
    /\ view' = appendBroadcast(view, r, jReaders[r].eChunk)
    /\ UNCHANGED jParent
    /\ JobsFrame

\* runJob: err = cmd.Wait(); Wait closes the read ends of both pipes once the
\* process has exited
JobWait(r) ==
    /\ jPc[r] = "running"
    /\ jProc[r].state \in {"exited", "killed"}
    /\ LET err == CmdWaitErr(jProc[r].state, jProc[r].exit, jProc[r].ctxKill)
       IN  jWaitErr' = [jWaitErr EXCEPT ![r] =
                          IF err = ErrDeadline /\ jCtx[r] = "parentCancelled"
                          THEN ErrOther ELSE err]
    /\ jProc' = [jProc EXCEPT ![r].readEnds = "closed"]
    /\ jPc' = [jPc EXCEPT ![r] = "waited"]
    /\ UNCHANGED <<jmVars, job, jCtx, jTimeout, jReaders>>
    /\ UNCHANGED viewVars
    /\ JobsFrame

\* runJob: wg.Wait(), the exit-code mapping, and Done under the Job's lock
JobFinish(r) ==
    /\ jPc[r] = "waited"
    /\ ReadersDone(r)
    /\ job' = [job EXCEPT ![r] =
                 [@ EXCEPT !.Done = TRUE, !.End = clock,
                           !.ExitCode = ExitCodeOf(jWaitErr[r]),
                           !.Output = job[r].buffer]]
    /\ jPc' = [jPc EXCEPT ![r] = "audit"]
    /\ UNCHANGED <<jmVars, jCtx, jTimeout, jProc, jReaders, jWaitErr>>
    /\ UNCHANGED viewVars
    /\ JobsFrame

\* runJob: jm.audit(job.User, "cmd.run", job.CommandString(), exitCode)
JobAudit(r) ==
    /\ jPc[r] = "audit"
    /\ auditLog' = Append(auditLog,
                          [ref |-> r, user |-> job[r].User, action |-> "cmd.run",
                           command |-> CommandString(job[r]),
                           exitCode |-> ExitCodeOf(jWaitErr[r])])
    /\ jCtx' = [jCtx EXCEPT ![r] = IF @ = "armed" THEN "cancelled" ELSE @]
    /\ jPc' = [jPc EXCEPT ![r] = "end"]
    /\ UNCHANGED <<jmCfg, jobs, clock, lastStart, job, jTimeout, jProc,
                   jReaders, jWaitErr>>
    /\ UNCHANGED viewVars
    /\ JobsFrame

\* the deadline of execCtx passes: exec kills the process
JobDeadline(r) ==
    /\ jCtx[r] = "armed"
    /\ jCtx' = [jCtx EXCEPT ![r] = "done"]
    /\ jProc' = [jProc EXCEPT
                   ![r].state = IF @ = "running" THEN "killed" ELSE @,
                   ![r].ctxKill = (jProc[r].state = "exited" /\ jPc[r] = "running")]
    /\ UNCHANGED <<jmVars, job, jPc, jTimeout, jReaders, jWaitErr>>
    /\ UNCHANGED viewVars
    /\ JobsFrame

\* the context Start was given is cancelled (the request it belongs to is
\* over, or its caller cancels it): execCtx is done with it and exec kills
\* the process
CtxCancel(r) ==
    /\ jPc[r] # "free"
    /\ jParent[r] \in {"request", "caller"}
    /\ jParent' = [jParent EXCEPT ![r] =
                      IF @ = "request" THEN "requestDone" ELSE "callerCancelled"]
    /\ IF jCtx[r] = "armed"
       THEN /\ jCtx' = [jCtx EXCEPT ![r] = "parentCancelled"]
            /\ jProc' = [jProc EXCEPT
                           ![r].state = IF @ = "running" THEN "killed" ELSE @,
                           ![r].ctxKill = (jProc[r].state = "exited"
                                           /\ jPc[r] = "running")]
       ELSE UNCHANGED <<jCtx, jProc>>
    /\ UNCHANGED <<jmVars, job, jPc, jTimeout, jReaders, jWaitErr, view>>
    /\ JobsFrame

\* handleJobs for /api/jobs/<id>/stream: Get(id), then streamJob sends the
\* output so far
StreamOpen(v, id) ==
    /\ view[v].pc = "idle"
    /\ Get(id) # 0
    /\ view' = [view EXCEPT ![v] =
                   [NoView EXCEPT !.pc = "initial", !.job = Get(id),
                                  !.initial = job[Get(id)].Output]]
    /\ UNCHANGED <<jmVars, jobVars, jParent>>
    /\ JobsFrame

\* streamJob: ch := job.Subscribe()
StreamSubscribe(v) ==
    /\ view[v].pc = "initial"
    /\ view' = [view EXCEPT ![v].pc = "streaming"]
    /\ UNCHANGED <<jmVars, jobVars, jParent>>
    /\ JobsFrame

\* streamJob: chunk := <-ch, sent to the client
StreamRecv(v) ==
    /\ view[v].pc = "streaming"
    /\ view[v].ch # <<>>
    /\ view' = [view EXCEPT ![v].got = Append(@, Head(view[v].ch)),
                            ![v].ch = Tail(@)]
    /\ UNCHANGED <<jmVars, jobVars, jParent>>
    /\ JobsFrame

\* streamJob: the ticker finds the Job done: return, job.Unsubscribe(ch);
\* the request is over and its channel is gone
StreamTickDone(v) ==
    /\ view[v].pc = "streaming"
    /\ job[view[v].job].Done
    /\ view' = [view EXCEPT ![v] = [NoView EXCEPT !.pc = "finished"]]
    /\ UNCHANGED <<jmVars, jobVars, jParent>>
    /\ JobsFrame

\* streamJob: the client is gone: return, job.Unsubscribe(ch)
StreamDisconnect(v) ==
    /\ view[v].pc = "streaming"
    /\ view' = [view EXCEPT ![v] = [NoView EXCEPT !.pc = "closed"]]
    /\ UNCHANGED <<jmVars, jobVars, jParent>>
    /\ JobsFrame

\* a test that evicts by age alone, counted from the start of the Job
ExpiredByAge(j, now) == now - j.Start > Ttl

\* cleanupLoop: done && time.Since(end) > jm.ttl
Expired(j, now) == j.Done /\ now - j.End > Ttl

\* cleanupLoop: one pass over the job table
Sweep ==
    /\ jobs' = [id \in JobIds |->
                  IF jobs[id] # 0 /\ Expired(job[jobs[id]], clock)
                  THEN 0 ELSE jobs[id]]
    /\ jobs' # jobs
    /\ UNCHANGED <<jmCfg, clock, auditLog, lastStart, jobVars>>
    /\ UNCHANGED viewVars
    /\ JobsFrame

\* Start while the job table has never held a Job
StartFirst(user, command) ==
    /\ \A r \in JobRefs : jPc[r] = "free"
    /\ handleCmdRun(user, command)

\* one Job from Start to the end of its task, with the clock, configuration
\* updates and the sweep
JobNext ==
    \/ Tick
    \/ \E cfg \in Configs : UpdateConfig(cfg)
    \/ \E user \in Users, command \in StartCmds : StartFirst(user, command)
    \/ \E r \in JobRefs : RunJobBegin(r)
    \/ \E r \in JobRefs : RunJobPipeFail(r)
    \/ \E r \in JobRefs : RunJobStartFail(r)
    \/ \E r \in JobRefs : RunJobStartOk(r)
    \/ \E r \in JobRefs : JobProcWriteOut(r)
    \/ \E r \in JobRefs : JobProcWriteErr(r)
    \/ \E r \in JobRefs, code \in ExitCodes : JobProcExit(r, code)
    \/ \E r \in JobRefs : ReadStdout(r)
    \/ \E r \in JobRefs : AppendStdout(r)
    \/ \E r \in JobRefs : ReadStderr(r)
    \/ \E r \in JobRefs : AppendStderr(r)
    \/ \E r \in JobRefs : JobWait(r)
    \/ \E r \in JobRefs : JobFinish(r)
    \/ \E r \in JobRefs : JobAudit(r)
    \/ \E r \in JobRefs : JobDeadline(r)
    \/ Sweep

\* the job table under any number of Start calls, each Job's task ending by
\* a failure to open its pipes or to start its process
TableNext ==
    \/ Tick
    \/ \E cfg \in Configs : UpdateConfig(cfg)
    \/ \E user \in Users, command \in StartCmds : handleCmdRun(user, command)
    \/ \E r \in JobRefs : RunJobBegin(r)
    \/ \E r \in JobRefs : RunJobPipeFail(r)
    \/ \E r \in JobRefs : RunJobStartFail(r)
    \/ Sweep

\* the command of the Jobs that are streamed
StreamCmd == <<"/", "s", "/", "z", " ", "l">>

\* Start by a caller that can cancel the context it passes, while the job
\* table has never held a Job
StartByCaller(user, command) ==
    /\ \A r \in JobRefs : jPc[r] = "free"
    /\ Start("caller", user, command)

\* the viewers make their requests in the order of their numbers
OpenInOrder(v) == \A w \in Viewers : w < v => view[w].pc # "idle"

\* one Job started by handleCmdRun, and its viewers
StreamNext ==
    \/ \E user \in Users : StartFirst(user, StreamCmd)
    \/ \E r \in JobRefs : RunJobBegin(r)
    \/ \E r \in JobRefs : RunJobPipeFail(r)
    \/ \E r \in JobRefs : RunJobStartFail(r)
    \/ \E r \in JobRefs : RunJobStartOk(r)
    \/ \E r \in JobRefs : JobProcWriteOut(r)
    \/ \E r \in JobRefs : JobProcWriteErr(r)
    \/ \E r \in JobRefs : JobProcExit(r, 0)
    \/ \E r \in JobRefs : ReadStdout(r)
    \/ \E r \in JobRefs : AppendStdout(r)
    \/ \E r \in JobRefs : ReadStderr(r)
    \/ \E r \in JobRefs : AppendStderr(r)
    \/ \E r \in JobRefs : JobWait(r)
    \/ \E r \in JobRefs : JobFinish(r)
    \/ \E r \in JobRefs : JobAudit(r)
    \/ \E v \in Viewers, id \in JobIds : OpenInOrder(v) /\ StreamOpen(v, id)
    \/ \E v \in Viewers : StreamSubscribe(v)
    \/ \E v \in Viewers : StreamRecv(v)
    \/ \E v \in Viewers : StreamTickDone(v)
    \/ \E v \in Viewers : StreamDisconnect(v)

\* one Job, started by handleCmdRun or by a caller that can cancel the
\* context it passes, with the deadline and one viewer
CtxNext ==
    \/ \E user \in Users : StartFirst(user, StreamCmd)
    \/ \E user \in Users : StartByCaller(user, StreamCmd)
    \/ \E r \in JobRefs : CtxCancel(r)
    \/ \E r \in JobRefs : RunJobBegin(r)
    \/ \E r \in JobRefs : RunJobPipeFail(r)
    \/ \E r \in JobRefs : RunJobStartFail(r)
    \/ \E r \in JobRefs : RunJobStartOk(r)
    \/ \E r \in JobRefs : JobProcWriteOut(r)
    \/ \E r \in JobRefs : JobProcWriteErr(r)
    \/ \E r \in JobRefs : JobProcExit(r, 0)
    \/ \E r \in JobRefs : ReadStdout(r)
    \/ \E r \in JobRefs : AppendStdout(r)
    \/ \E r \in JobRefs : ReadStderr(r)
    \/ \E r \in JobRefs : AppendStderr(r)
    \/ \E r \in JobRefs : JobWait(r)
    \/ \E r \in JobRefs : JobFinish(r)
    \/ \E r \in JobRefs : JobAudit(r)
    \/ \E r \in JobRefs : JobDeadline(r)
    \/ \E id \in JobIds : StreamOpen(1, id)
    \/ StreamSubscribe(1)
    \/ StreamRecv(1)
    \/ StreamTickDone(1)
    \/ StreamDisconnect(1)

(***************************************************************************)
(* Claims about JobManager and Job.                                        *)
(***************************************************************************)
Allocated(r) == jPc[r] # "free"

\* the audit hook's invocations for Job r
AuditsOf(r) == {i \in DOMAIN auditLog : auditLog[i].ref = r}

\* C4: a Job whose process is killed by its deadline ends Done with exit
\* code 124.
C4_DeadlineExit124 ==
    \A r \in JobRefs :
        (job[r].Done /\ jProc[r].state = "killed") => job[r].ExitCode = 124

\* the first field of the command is missing or does not start with "/"
NonAbsolute(command) ==
    LET fields == Fields(command)
    IN  Len(fields) = 0 \/ ~HasSlashPrefix(fields[1])

\* the first field is not absolute, no alias and no basename of the allowlist
NotResolvable(command, cfg) ==
    LET fields == Fields(command)
    IN  \/ Len(fields) = 0
        \/ /\ ~HasSlashPrefix(fields[1])
           /\ ~\E a \in cfg.Aliases : a[1] = fields[1]
           /\ ~\E i \in 1..Len(cfg.AllowedCmds) :
                  Base(cfg.AllowedCmds[i]) = fields[1]

\* a Start call that returned an error and changed neither the job table
\* nor any Job, task or process
StartRejected ==
    /\ lastStart'.err # ""
    /\ lastStart'.ref = 0
    /\ jobs' = jobs
    /\ jobVars' = jobVars

\* C5 as stated: every Start call with a non-absolute command path returns
\* an error, creates no Job and spawns no process, whatever the
\* configuration.
C5_NonAbsoluteRejected ==
    [][(lastStart' # lastStart /\ NonAbsolute(lastStart'.cmd)) => StartRejected]_vars

\* C5 amended: every Start call whose command's first field is not
\* absolute, is no key of the configured aliases and is the basename of no
\* allowed command returns an error, creates no Job and spawns no process.
C5_UnresolvableRejected ==
    [][(lastStart' # lastStart /\ NotResolvable(lastStart'.cmd, jmCfg))
          => StartRejected]_vars

C5_Witness ==
    /\ lastStart.cmd = <<"q">>
    /\ lastStart.err = "command must be absolute or known alias"
    /\ \E r \in JobRefs : Allocated(r)
    /\ \A r \in JobRefs : Allocated(r) => r # lastStart.ref

\* C7: a Job whose task has ended (by process exit, by deadline, or by a
\* failure to open its pipes or to start its process) has caused exactly one
\* invocation of the audit hook, with (owner, "cmd.run", command string,
\* exit code of the Job).
C7_ExactlyOneAudit ==
    \A r \in JobRefs :
        jPc[r] = "end" =>
            /\ Cardinality(AuditsOf(r)) = 1
            /\ \A i \in AuditsOf(r) :
                  auditLog[i] = [ref |-> r, user |-> job[r].User,
                                 action |-> "cmd.run",
                                 command |-> CommandString(job[r]),
                                 exitCode |-> job[r].ExitCode]

\* C8: no two Jobs have the same id, and every Job that is not Done is the
\* entry of the job table under its id.
C8_DistinctIds ==
    /\ \A r1, r2 \in JobRefs :
          (Allocated(r1) /\ Allocated(r2) /\ r1 # r2) => job[r1].ID # job[r2].ID
    /\ \A r \in JobRefs :
          (Allocated(r) /\ ~job[r].Done) => Get(job[r].ID) = r

\* C9: once a Job is Done it stays Done, and its exit code, end timestamp,
\* output and truncated flag never change again.
C9_DoneIsFinal ==
    [][\A r \in JobRefs :
          job[r].Done =>
              /\ job'[r].Done
              /\ job'[r].ExitCode = job[r].ExitCode
              /\ job'[r].End = job[r].End
              /\ job'[r].Output = job[r].Output
              /\ job'[r].Truncated = job[r].Truncated]_vars

C9_Witness ==
    \E r \in JobRefs :
        /\ job[r].Done /\ jPc[r] = "end"
        /\ jProc[r].state = "exited"
        /\ Len(job[r].Output) = 2
        /\ clock > job[r].End

\* C10: the Output of a Job before any step is a prefix of its Output after
\* the step: the buffer only grows at its end.
C10_OutputGrowsAtEnd ==
    [][\A r \in JobRefs : IsPrefix(job[r].Output, job'[r].Output)]_vars

C10_Witness ==
    \E r \in JobRefs :
        /\ job[r].Done
        /\ job[r].Output = << <<"e", 1>>, <<"o", 1>>, <<"o", 2>> >>

\* a is a subsequence of b, in order
RECURSIVE IsSubseq(_, _)
IsSubseq(a, b) ==
    IF a = <<>> THEN TRUE
    ELSE IF b = <<>> THEN FALSE
    ELSE IF Head(a) = Head(b) THEN IsSubseq(Tail(a), Tail(b))
    ELSE IsSubseq(a, Tail(b))

\* the bytes of a sequence of chunks
RECURSIVE Flatten(_)
Flatten(chunks) ==
    IF chunks = <<>> THEN <<>> ELSE Head(chunks) \o Flatten(Tail(chunks))

\* t ends with s
IsSuffix(s, t) ==
    Len(s) <= Len(t) /\ SubSeq(t, Len(t) - Len(s) + 1, Len(t)) = s

\* viewer v is subscribed to Job r
Subscribed(v, r) == view[v].pc = "streaming" /\ view[v].job = r

\* the chunks viewer v has taken from its channel or still has in it
Delivered(v) == view[v].got \o view[v].ch

\* C11: the chunks broadcast while a viewer is subscribed are the bytes
\* appended to the buffer since it subscribed; what the viewer receives is
\* an in-order subsequence of them, all of them when none was dropped; two
\* viewers subscribed over the same broadcasts with no drop receive the
\* same sequence.
C11_SubscribersSeeOrderedChunks ==
    /\ \A v \in Viewers :
          view[v].pc = "streaming" =>
              /\ IsSuffix(Flatten(view[v].offered), job[view[v].job].buffer)
              /\ IsSubseq(Delivered(v), view[v].offered)
              /\ ~view[v].dropped => Delivered(v) = view[v].offered
    /\ \A v, w \in Viewers :
          (/\ view[v].pc = "streaming" /\ view[w].pc = "streaming"
           /\ view[v].job = view[w].job
           /\ view[v].offered = view[w].offered
           /\ ~view[v].dropped /\ ~view[w].dropped)
              => Delivered(v) = Delivered(w)

C11_Witness ==
    /\ Subscribed(1, 1) /\ Subscribed(2, 1)
    /\ Len(view[1].got) = 3 /\ view[2].got = view[1].got
    /\ Len(job[1].buffer) = 4

\* the chunk a readStream task of Job r appends in this step, if any
Consumed(r) ==
    IF jReaders[r].oChunk # <<>> /\ jReaders'[r].oChunk = <<>>
    THEN jReaders[r].oChunk
    ELSE IF jReaders[r].eChunk # <<>> /\ jReaders'[r].eChunk = <<>>
    THEN jReaders[r].eChunk
    ELSE <<>>

\* C12: a task that holds a chunk can always append it, whatever the state
\* of the channels; the append leaves in the buffer what fits under the
\* Job's limit, whoever is subscribed; a subscriber whose channel is full
\* keeps its channel as it is, and every other subscriber gets the chunk
\* at the end of its channel.
C12_AppendNeverBlocks ==
    [][\A r \in JobRefs :
          /\ jReaders[r].oChunk # <<>> => ENABLED AppendStdout(r)
          /\ jReaders[r].eChunk # <<>> => ENABLED AppendStderr(r)
          /\ Consumed(r) # <<>> =>
                LET written == SubSeq(job'[r].buffer, Len(job[r].buffer) + 1,
                                      Len(job'[r].buffer))
                IN  /\ job'[r].buffer =
                          FirstBytes(job[r].buffer \o Consumed(r), jobLimit(job[r]))
                    /\ \A v \in Viewers :
                          Subscribed(v, r) =>
                              view'[v].ch =
                                  IF written = <<>> \/ Len(view[v].ch) >= ChanCap
                                  THEN view[v].ch
                                  ELSE Append(view[v].ch, written)]_vars

C12_Witness ==
    /\ Subscribed(1, 1) /\ Subscribed(2, 1)
    /\ view[1].dropped /\ Len(view[1].ch) = ChanCap /\ view[1].got = <<>>
    /\ ~view[2].dropped /\ Len(view[2].offered) = 3
    /\ view[2].offered = view[1].offered
    /\ Len(job[1].buffer) = 3

\* C13: when a Job's pipes cannot be opened or its process cannot be
\* started, the Job is Done in that step with exit code 1 and the error
\* text as its output, and the text is put in the channel of every viewer
\* subscribed at that moment.
C13_StartFailureFinishesJob ==
    [][\A r \in JobRefs :
          (jPc[r] = "exec" /\ jPc'[r] = "end") =>
              /\ job'[r].Done /\ job'[r].ExitCode = 1
              /\ job'[r].Output = ErrText
              /\ \A v \in Viewers :
                    Subscribed(v, r) =>
                        /\ view'[v].pc = "streaming"
                        /\ view'[v].ch = <<ErrText>>]_vars

C13_Witness ==
    /\ jPc[1] = "end" /\ jProc[1].state = "none"
    /\ job[1].Done /\ job[1].ExitCode = 1 /\ job[1].Output = ErrText
    /\ Subscribed(1, 1) /\ view[1].got = <<ErrText>>
    /\ Subscribed(2, 1) /\ view[2].ch = <<ErrText>>

\* C14: in every step other than a Start call, an entry of the job table
\* whose Job is Done with an end older than the retention window is removed
\* if the step removes anything at all (the step is a sweep); every other
\* entry stays, in particular that of a running Job of any age, and a Done
\* Job that stays keeps all its fields.
C14_SweepEvictsOnlyExpired ==
    [][lastStart' = lastStart =>
          \A id \in JobIds :
              jobs[id] # 0 =>
                  IF job[jobs[id]].Done /\ clock - job[jobs[id]].End > Ttl
                  THEN jobs' # jobs => jobs'[id] = 0
                  ELSE /\ jobs'[id] = jobs[id]
                       /\ job[jobs[id]].Done => job'[jobs[id]] = job[jobs[id]]]_vars

C14_Witness ==
    \E r \in JobRefs :
        /\ job[r].Done /\ jProc[r].state = "exited" /\ jPc[r] = "end"
        /\ clock - job[r].End > Ttl
        /\ job[r].ID \in JobIds /\ Get(job[r].ID) = 0

\* the deadline of a Job under configuration cfg, in seconds
TimeoutOf(cfg) ==
    IF cfg.MaxRuntimeSeconds <= 0 THEN DefaultRuntimeSeconds
    ELSE cfg.MaxRuntimeSeconds

\* C15: for the Job the latest Start call created, the output limit and the
\* deadline of its task are those of the configuration that was in effect
\* when Start was called, and the command had passed that configuration's
\* allowlist, whatever UpdateConfig calls follow.
C15_ConfigOfStartApplies ==
    \A r \in JobRefs :
        (lastStart.ref = r /\ jPc[r] \notin {"free", "spawned"}) =>
            /\ job[r].Limit = lastStart.cfg.MaxOutputBytes
            /\ lastStart.cfg.Unsafe
                  \/ isAllowed(lastStart.cfg.AllowedCmds, job[r].Cmd)
            /\ jTimeout[r] = TimeoutOf(lastStart.cfg)

\* C24: a Start call made while the configuration is not in unsafe mode
\* creates a Job, and starts its task, only when the path the command
\* resolves to under that configuration is an element of its
\* allowed-commands list, and the Job's command is that path; a call whose
\* command resolves to any other path returns "command not in allowlist",
\* and every call that creates no Job returns an error and leaves the job
\* table, the Jobs and their tasks unchanged.
C24_AllowlistGatesStart ==
    [][(lastStart' # lastStart /\ ~lastStart'.cfg.Unsafe) =>
          LET cfg == lastStart'.cfg
              r == lastStart'.ref
              parsed == parseCommand(lastStart'.cmd, cfg)
              member(path) ==
                  \E i \in 1..Len(cfg.AllowedCmds) : cfg.AllowedCmds[i] = path
          IN  /\ cfg = jmCfg
              /\ r # 0 =>
                    /\ parsed.err = "" /\ job'[r].Cmd = parsed.path
                    /\ member(job'[r].Cmd)
                    /\ jPc[r] = "free" /\ jPc'[r] = "spawned"
                    /\ jobs'[job'[r].ID] = r
              /\ r = 0 => StartRejected
              /\ (parsed.err = "" /\ ~member(parsed.path)) =>
                    /\ StartRejected
                    /\ lastStart'.err = "command not in allowlist"]_vars

\* an absolute path outside the allowlist was rejected after a Job had been
\* created for an alias of an allowed command
C24_Witness ==
    /\ lastStart.cmd = PathOther /\ ~lastStart.cfg.Unsafe
    /\ lastStart.err = "command not in allowlist" /\ lastStart.ref = 0
    /\ \E r \in JobRefs :
          /\ Allocated(r) /\ job[r].Cmd = PathZfs /\ job[r].Args = <<>>
          /\ Get(job[r].ID) = r

\* C25: in every state the buffered output of every Job, and its Output,
\* is no longer than the Job's effective limit (Limit, or the default
\* when Limit <= 0).
C25_BufferWithinLimit ==
    \A r \in JobRefs :
        /\ Len(job[r].buffer) <= jobLimit(job[r])
        /\ Len(job[r].Output) <= jobLimit(job[r])

\* the bytes of one stream in a Job's output, in the order they have there
OfStream(output, stream) == SelectSeq(output, LAMBDA b : b[1] = stream)

\* C30: a Job that is Done, whose process exited on its own (the deadline
\* did not fire) after writing fewer bytes in total than the Job's limit,
\* has in its Output every byte the process wrote to stdout and every byte
\* it wrote to stderr, each stream in the order written, and nothing else,
\* and is not truncated.
C30_NoOutputLost ==
    \A r \in JobRefs :
        (/\ job[r].Done /\ jProc[r].state = "exited"
         /\ jCtx[r] \in {"armed", "cancelled"}
         /\ jProc[r].outN + jProc[r].errN < jobLimit(job[r])) =>
            /\ OfStream(job[r].Output, "o") = StreamBytes("o", jProc[r].outN)
            /\ OfStream(job[r].Output, "e") = StreamBytes("e", jProc[r].errN)
            /\ Len(job[r].Output) = jProc[r].outN + jProc[r].errN
            /\ ~job[r].Truncated

\* C28: for a subscribed viewer for which no chunk was dropped, the output
\* it read at the start followed by the chunks it has received is a prefix
\* of the Job's buffered output, and together with the chunks still in its
\* channel it is the whole of it.
C28_SnapshotThenChunksGapFree ==
    \A v \in Viewers :
        (view[v].pc = "streaming" /\ ~view[v].dropped) =>
            /\ IsPrefix(view[v].initial \o Flatten(view[v].got),
                        job[view[v].job].buffer)
            /\ view[v].initial \o Flatten(Delivered(v)) = job[view[v].job].buffer

\* C29: when the ticker of a viewer's stream finds the Job Done and the
\* stream ends, the viewer's channel is empty: every chunk put in it has
\* been sent to the client.
C29_ChannelDrainedAtDone ==
    [][\A v \in Viewers :
          (view[v].pc = "streaming" /\ view'[v].pc = "finished") =>
              view[v].ch = <<>>]_vars

\* a step of a viewer's streamJob handler leaves every Job, its task, its
\* process and the job table as they are, and the other viewers too
ViewerStepsOnlyTouchViewer ==
    \A v \in Viewers :
        view'[v].pc # view[v].pc =>
            /\ jobVars' = jobVars /\ jParent' = jParent /\ jobs' = jobs
            /\ \A w \in Viewers : w # v => view'[w] = view[w]

\* C16 as stated: nothing but its own deadline cancels a Job: its deadline
\* context never ends through the context passed to Start, its process is
\* killed only by the deadline, and the steps of a viewer change nothing
\* of the Job.
C16_OnlyDeadlineCancels ==
    [][/\ \A r \in JobRefs :
             /\ jCtx'[r] # "parentCancelled"
             /\ (jProc[r].state = "running" /\ jProc'[r].state = "killed")
                    => jCtx'[r] = "done"
       /\ ViewerStepsOnlyTouchViewer]_vars

\* C16 amended: a Job is cancelled by its own deadline or by cancellation
\* of the context its caller passed to Start, never by the end of the
\* request that started it (handleCmdRun passes a context that is never
\* cancelled), and the steps of a viewer change nothing of the Job.
C16_DetachedFromRequest ==
    [][/\ \A r \in JobRefs :
             /\ jCtx'[r] = "parentCancelled" => jParent'[r] = "callerCancelled"
             /\ (jProc[r].state = "running" /\ jProc'[r].state = "killed")
                    => \/ jCtx'[r] = "done"
                       \/ jParent'[r] = "callerCancelled"
       /\ ViewerStepsOnlyTouchViewer]_vars

C16_Witness ==
    /\ jParent[1] = "background"
    /\ view[1].pc = "closed" /\ view[1].job = 0
    /\ ~job[1].Done /\ jProc[1].state = "running" /\ jCtx[1] = "armed"
    /\ Len(job[1].Output) >= 1

(***************************************************************************)
(* ReplicateDataset: the snapshot, the choice of the chain, the transfer   *)
(* and the retention.  A snapshot name is the dataset, "@" and the token.  *)
(***************************************************************************)
\* largest value of the wall clock of the replication, in seconds
MaxReplClock == 2

\* the source dataset and the prefix of the replication snapshots
ReplSource == <<"d">>
ReplPrefix == <<"r">>
\* the tokens of the snapshots an operator makes by hand: one whose token
\* starts with the prefix and one whose token does not
ManualTokens == { <<"r", "m">>, <<"a", "m">> }
Retentions == {0, 1}

\* BuildSnapshotName(prefix, t): "%s-%s" of the prefix and the time in seconds
BuildSnapshotName(prefix, t) ==
    (IF prefix = <<>> THEN <<"s">> ELSE prefix) \o <<"-", t>>

\* strings.SplitN(name, "@", 2): the part after the first "@", or <<"?">>
\* with ok = FALSE when there is no "@"
RECURSIVE AfterAtFrom(_, _)
AfterAtFrom(name, i) ==
    IF i > Len(name) THEN [ok |-> FALSE, rest |-> <<>>]
    ELSE IF name[i] = "@" THEN [ok |-> TRUE, rest |-> SubSeq(name, i + 1, Len(name))]
    ELSE AfterAtFrom(name, i + 1)

AfterAt(name) == AfterAtFrom(name, 1)

\* snapshotsWithPrefix(snaps, prefix)
snapshotsWithPrefix(snaps, prefix) ==
    IF prefix = <<>> THEN <<>>
    ELSE SelectSeq(snaps, LAMBDA n : AfterAt(n).ok /\ IsPrefix(prefix, AfterAt(n).rest))

NoSel == [prev |-> <<>>, curr |-> <<>>]

\* a choice that takes the last entry whatever was just created
selectChainLast(matches, curr) ==
    [prev |-> IF Len(matches) > 1 THEN matches[Len(matches) - 1] ELSE <<>>,
     curr |-> matches[Len(matches)]]

\* the choice of curr and prev in ReplicateDataset, for a non-empty matches:
\* the first index of curr in matches, or the last index when it is not
\* there; prev is the entry before it, "" when there is none
selectChain(matches, curr) ==
    LET found == {i \in 1..Len(matches) : matches[i] = curr}
        index == IF found # {}
                 THEN CHOOSE i \in found : \A j \in found : i <= j
                 ELSE Len(matches)
    IN  [prev |-> IF index > 1 THEN matches[index - 1] ELSE <<>>,
         curr |-> IF found # {} THEN curr ELSE matches[index]]

\* sendArgs (without -R): send [-I prev] curr
sendArgsOf(sel) ==
    <<"send">> \o (IF sel.prev # <<>> THEN <<"-I", sel.prev>> ELSE <<>>)
              \o <<sel.curr>>

\* EnforceRetention(dataset, prefix, retention) on the snapshots snaps of a
\* dataset: the oldest matching snapshots beyond the newest `retention` are
\* destroyed
EnforceRetention(snaps, prefix, retention) ==
    LET filtered == snapshotsWithPrefix(snaps, prefix)
        doomed == {filtered[i] : i \in 1..(Len(filtered) - retention)}
    IN  IF retention <= 0 \/ Len(filtered) <= retention THEN snaps
        ELSE SelectSeq(snaps, LAMBDA n : n \notin doomed)

\* the elements of a sequence
Range(q) == {q[i] : i \in 1..Len(q)}

\* what zfs send [-I prev] curr puts on the stream, given the snapshots of
\* the source: curr alone, or every snapshot after prev up to curr
Streamed(snaps, sel) ==
    LET pos(n) == CHOOSE i \in 1..Len(snaps) : snaps[i] = n
    IN  IF sel.curr \notin Range(snaps) THEN <<>>
        ELSE IF sel.prev = <<>> \/ sel.prev \notin Range(snaps)
        THEN <<sel.curr>>
        ELSE SubSeq(snaps, pos(sel.prev) + 1, pos(sel.curr))

OkRes == [ExitCode |-> 0, err |-> ""]

\* ReplicateDataset returns: its arguments and locals are gone
ReplReturn(res) ==
    /\ rpPc' = "returned"
    /\ rpRes' = res
    /\ rpRetention' = 0 /\ rpName' = <<>> /\ rpMatches' = <<>>
    /\ rpSel' = NoSel /\ rpSendArgs' = <<>>

\* no replication
ReplIdle ==
    /\ srcSnaps = <<>> /\ tgtSnaps = <<>> /\ rpClock = 0
    /\ rpPc = "off" /\ rpRetention = 0 /\ rpName = <<>> /\ rpMatches = <<>>
    /\ rpSel = NoSel /\ rpSendArgs = <<>> /\ rpRes = OkRes
    /\ rpSent = {}

\* a source and a target without snapshots, before the first invocation
ReplInit ==
    /\ srcSnaps = <<>> /\ tgtSnaps = <<>> /\ rpClock = 0
    /\ rpPc = "idle" /\ rpRetention = 0 /\ rpName = <<>> /\ rpMatches = <<>>
    /\ rpSel = NoSel /\ rpSendArgs = <<>> /\ rpRes = OkRes
    /\ rpSent = {}

\* a second passes
ReplTick ==
    /\ rpPc # "off"
    /\ rpClock < MaxReplClock
    /\ rpClock' = rpClock + 1
    /\ UNCHANGED <<srcSnaps, tgtSnaps, rpPc, rpRetention, rpName, rpMatches,
                   rpSel, rpSendArgs, rpRes, rpSent>>
    /\ ReplFrame

\* ReplicateDataset(ctx, cfg, source, target, prefix, retention, ...):
\* name := BuildSnapshotName(prefix, time.Now())
ReplCall(retention) ==
    /\ rpPc \in {"idle", "returned"}
    /\ rpPc' = "create"
    /\ rpRetention' = retention
    /\ rpName' = ReplSource \o <<"@">> \o BuildSnapshotName(ReplPrefix, rpClock)
    /\ rpMatches' = <<>> /\ rpSel' = NoSel /\ rpSendArgs' = <<>>
    /\ rpRes' = OkRes
    /\ UNCHANGED <<srcSnaps, tgtSnaps, rpClock, rpSent>>
    /\ ReplFrame

\* CreateSnapshot succeeds: the snapshot is the newest of the source
ReplCreateOk ==
    /\ rpPc = "create"
    /\ rpName \notin Range(srcSnaps)
    /\ srcSnaps' = Append(srcSnaps, rpName)
    /\ rpPc' = "list"
    /\ UNCHANGED <<tgtSnaps, rpClock, rpRetention, rpName, rpMatches, rpSel,
                   rpSendArgs, rpRes, rpSent>>
    /\ ReplFrame

\* CreateSnapshot fails (a snapshot of that name exists, or zfs fails):
\* ReplicateDataset returns the error
ReplCreateFail ==
    /\ rpPc = "create"
    /\ ReplReturn([ExitCode |-> 1, err |-> "snapshot failed"])
    /\ UNCHANGED <<srcSnaps, tgtSnaps, rpClock, rpSent>>
    /\ ReplFrame

\* ListSnapshots fails: ReplicateDataset returns the error
ReplListFail ==
    /\ rpPc = "list"
    /\ ReplReturn([ExitCode |-> 1, err |-> "list failed"])
    /\ UNCHANGED <<srcSnaps, tgtSnaps, rpClock, rpSent>>
    /\ ReplFrame

\* ListSnapshots, snapshotsWithPrefix, the choice of curr and prev, sendArgs
ReplSelect ==
    /\ rpPc = "list"
    /\ LET matches == snapshotsWithPrefix(srcSnaps, ReplPrefix)
       IN  IF matches = <<>>
           THEN ReplReturn([ExitCode |-> 1,
                            err |-> "no replication snapshots found"])
           ELSE /\ rpMatches' = matches
                /\ rpSel' = selectChain(matches, rpName)
                /\ rpSendArgs' = sendArgsOf(selectChain(matches, rpName))
                /\ rpPc' = "transfer"
                /\ UNCHANGED <<rpRes, rpRetention, rpName>>
    /\ UNCHANGED <<srcSnaps, tgtSnaps, rpClock, rpSent>>
    /\ ReplFrame

\* runZfsPipeline succeeds with exit code 0 (an incremental stream is
\* received only by a target that has prev), then the two EnforceRetention
\* calls when retention > 0
ReplTransferOk ==
    /\ rpPc = "transfer"
    /\ rpSel.curr \in Range(srcSnaps)
    /\ rpSel.prev # <<>> =>
          rpSel.prev \in Range(srcSnaps) /\ rpSel.prev \in Range(tgtSnaps)
    /\ LET received == SelectSeq(Streamed(srcSnaps, rpSel),
                                 LAMBDA n : n \notin Range(tgtSnaps))
       IN  /\ rpSent' = rpSent \cup Range(received)
           /\ srcSnaps' = EnforceRetention(srcSnaps, ReplPrefix, rpRetention)
           /\ tgtSnaps' = EnforceRetention(tgtSnaps \o received, ReplPrefix,
                                           rpRetention)
    /\ ReplReturn(OkRes)
    /\ UNCHANGED rpClock
    /\ ReplFrame

\* runZfsPipeline returns an error or a non-zero exit code: returned as it is
ReplTransferFail ==
    /\ rpPc = "transfer"
    /\ ReplReturn([ExitCode |-> 1, err |-> "zfs replication failed"])
    /\ UNCHANGED <<srcSnaps, tgtSnaps, rpClock, rpSent>>
    /\ ReplFrame

\* an operator makes a snapshot of the source by hand (CreateSnapshot)
ManualSnapshot(token) ==
    /\ rpPc # "off"
    /\ ReplSource \o <<"@">> \o token \notin Range(srcSnaps)
    /\ srcSnaps' = Append(srcSnaps, ReplSource \o <<"@">> \o token)
    /\ UNCHANGED <<tgtSnaps, rpClock, rpPc, rpRetention, rpName, rpMatches,
                   rpSel, rpSendArgs, rpRes, rpSent>>
    /\ ReplFrame

\* an operator destroys a snapshot of the source (DestroySnapshot)
ManualDestroy(i) ==
    /\ rpPc # "off"
    /\ i \in 1..Len(srcSnaps)
    /\ srcSnaps' = SelectSeq(srcSnaps, LAMBDA n : n # srcSnaps[i])
    /\ UNCHANGED <<tgtSnaps, rpClock, rpPc, rpRetention, rpName, rpMatches,
                   rpSel, rpSendArgs, rpRes, rpSent>>
    /\ ReplFrame

ReplNext ==
    \/ ReplTick
    \/ \E retention \in Retentions : ReplCall(retention)
    \/ ReplCreateOk
    \/ ReplCreateFail
    \/ ReplListFail
    \/ ReplSelect
    \/ ReplTransferOk
    \/ ReplTransferFail
    \/ \E token \in ManualTokens : ManualSnapshot(token)
    \/ \E i \in 1..(MaxReplClock + 3) : ManualDestroy(i)

(***************************************************************************)
(* Claims about ReplicateDataset.                                          *)
(***************************************************************************)
\* the snapshot the replication made at second t
ReplSnap(t) == ReplSource \o <<"@">> \o BuildSnapshotName(ReplPrefix, t)

\* C22: the step of ReplicateDataset that lists the snapshots and chooses
\* the chain: with no snapshot of the prefix the call returns "no
\* replication snapshots found" and no transfer is run; otherwise a
\* transfer follows in which current is the snapshot just created when it
\* is in the list and the last entry otherwise, previous is the entry
\* immediately before current and is absent when current is the first, and
\* the send is incremental (-I previous) exactly when previous is present;
\* three prior snapshots with the new one as the fourth give previous = the
\* third and current = the new one, and the new snapshot alone gives a full
\* send.
C22_ChainSelection ==
    [][(rpPc = "list" /\ rpPc' # "list" /\ rpRes'.err # "list failed") =>
          LET m == snapshotsWithPrefix(srcSnaps, ReplPrefix)
              inList == \E i \in 1..Len(m) : m[i] = rpName
          IN  IF m = <<>>
              THEN /\ rpPc' = "returned"
                   /\ rpRes' = [ExitCode |-> 1,
                                err |-> "no replication snapshots found"]
                   /\ rpSendArgs' = <<>>
                   /\ tgtSnaps' = tgtSnaps /\ srcSnaps' = srcSnaps
              ELSE /\ rpPc' = "transfer" /\ rpMatches' = m
                   /\ rpSel'.curr = IF inList THEN rpName ELSE m[Len(m)]
                   /\ \E i \in 1..Len(m) :
                         /\ m[i] = rpSel'.curr
                         /\ rpSel'.prev = IF i = 1 THEN <<>> ELSE m[i - 1]
                   /\ rpSendArgs' =
                         IF rpSel'.prev # <<>>
                         THEN <<"send", "-I", rpSel'.prev, rpSel'.curr>>
                         ELSE <<"send", rpSel'.curr>>
                   /\ (Len(m) = 4 /\ m[4] = rpName) =>
                         /\ rpSel' = [prev |-> m[3], curr |-> rpName]
                         /\ rpSendArgs' = <<"send", "-I", m[3], rpName>>
                   /\ m = <<rpName>> => rpSendArgs' = <<"send", rpName>>]_vars

\* three prior snapshots and the new one: an incremental send from the third
\* to the new one
C22_Witness ==
    /\ rpPc = "transfer"
    /\ Len(rpMatches) = 4
    /\ SubSeq(rpMatches, 2, 4) = <<ReplSnap(0), ReplSnap(1), ReplSnap(2)>>
    /\ rpName = ReplSnap(2)
    /\ rpSendArgs = <<"send", "-I", ReplSnap(1), ReplSnap(2)>>

\* C27: whenever an incremental transfer has been selected and the previous
\* snapshot it starts from is one that an invocation of ReplicateDataset
\* made, that snapshot is one that an earlier invocation transferred
\* successfully to the target.
C27_IncrementalFromTransferred ==
    (/\ rpPc = "transfer" /\ rpSel.prev # <<>>
     /\ \E t \in 0..MaxReplClock : rpSel.prev = ReplSnap(t))
        => rpSel.prev \in rpSent

(***************************************************************************)
(* The lock of a Job.  Every piece of code that touches the mutable fields *)
(* of one Job is a section: the fields it reads and writes, and whether it *)
(* runs between job.mu.Lock() and job.mu.Unlock().  The tasks are runJob,  *)
(* its two readStream tasks, a poller (handleJobs), a streamer (streamJob) *)
(* and the sweep (cleanupLoop).                                            *)
(***************************************************************************)
LkTasks == {"runJob", "stdout", "stderr", "poll", "stream", "sweep"}
LkFields == {"Done", "End", "ExitCode", "Output", "Truncated", "buffer",
             "subs", "cancel"}

\* the accesses <<field, "r" or "w">> of a section
Accesses(sec) ==
    CASE sec = "cancel"      -> { <<"cancel", "w">> }
      [] sec = "finishError" -> { <<"Done", "w">>, <<"End", "w">>,
                                  <<"ExitCode", "w">>, <<"buffer", "w">>,
                                  <<"Output", "w">>, <<"subs", "r">> }
      [] sec = "finish"      -> { <<"Done", "w">>, <<"End", "w">>,
                                  <<"ExitCode", "w">>, <<"Output", "w">>,
                                  <<"buffer", "r">> }
      [] sec = "append"      -> { <<"buffer", "r">>, <<"Truncated", "w">>,
                                  <<"buffer", "w">>, <<"Output", "w">>,
                                  <<"subs", "r">> }
      [] sec = "poll"        -> { <<"End", "r">>, <<"Done", "r">>,
                                  <<"ExitCode", "r">>, <<"Output", "r">>,
                                  <<"Truncated", "r">> }
      [] sec = "initial"     -> { <<"Output", "r">> }
      [] sec = "Subscribe"   -> { <<"subs", "w">> }
      [] sec = "tick"        -> { <<"Done", "r">> }
      [] sec = "Unsubscribe" -> { <<"subs", "w">> }
      [] sec = "sweep"       -> { <<"Done", "r">>, <<"End", "r">> }
      [] OTHER               -> {}

LkSections == {"cancel", "finishError", "finish", "append", "poll", "initial",
               "Subscribe", "tick", "Unsubscribe", "sweep"}

\* a runJob that sets the final fields without taking the lock
LockedButFinish(sec) == sec \notin {"cancel", "finish"}

\* the section runs under job.mu: all but job.cancel = cancel in runJob
Locked(sec) == sec # "cancel"

\* where a task goes when it leaves a section
After(sec) ==
    CASE sec = "cancel"      -> {"finishError", "spawn"}
      [] sec = "finishError" -> {"end"}
      [] sec = "finish"      -> {"end"}
      [] sec = "append"      -> {"append"}
      [] sec = "poll"        -> {"poll"}
      [] sec = "initial"     -> {"Subscribe"}
      [] sec = "Subscribe"   -> {"tick"}
      [] sec = "tick"        -> {"tick", "Unsubscribe"}
      [] sec = "Unsubscribe" -> {"end"}
      [] sec = "sweep"       -> {"sweep"}
      [] OTHER               -> {}

LkAt(sec) == [sec |-> sec, in |-> FALSE]

\* no Job
LockIdle ==
    /\ lkHolder = "none"
    /\ lkPc = [t \in LkTasks |-> LkAt("off")]
    /\ lkWrote = [f \in LkFields |-> {}]

\* Start has put the Job in the table and started runJob
LockInit ==
    /\ lkHolder = "none"
    /\ lkPc = [t \in LkTasks |->
                 CASE t = "runJob" -> LkAt("cancel")
                   [] t \in {"stdout", "stderr"} -> LkAt("none")
                   [] t = "poll" -> LkAt("poll")
                   [] t = "stream" -> LkAt("initial")
                   [] t = "sweep" -> LkAt("sweep")]
    /\ lkWrote = [f \in LkFields |-> {}]

\* a task enters the section it is at: job.mu.Lock() when the section is
\* under the lock, then its reads and writes
LkEnter(t) ==
    LET sec == lkPc[t].sec
    IN  /\ ~lkPc[t].in
        /\ sec \in LkSections
        /\ Locked(sec) => lkHolder = "none"
        /\ lkHolder' = IF Locked(sec) THEN t ELSE lkHolder
        /\ lkPc' = [lkPc EXCEPT ![t].in = TRUE]
        /\ lkWrote' = [f \in LkFields |->
                          IF <<f, "w">> \in Accesses(sec)
                          THEN lkWrote[f] \cup { <<t, Locked(sec)>> }
                          ELSE lkWrote[f]]
        /\ LockFrame

\* a task leaves its section: job.mu.Unlock() when it is under the lock
LkLeave(t, next) ==
    LET sec == lkPc[t].sec
    IN  /\ lkPc[t].in
        /\ next \in After(sec)
        /\ lkHolder' = IF Locked(sec) THEN "none" ELSE lkHolder
        /\ lkPc' = [lkPc EXCEPT ![t] = LkAt(next)]
        /\ UNCHANGED lkWrote
        /\ LockFrame

\* runJob: cmd.Start succeeded, go job.readStream twice, then cmd.Wait
LkSpawnReaders ==
    /\ lkPc["runJob"] = LkAt("spawn")
    /\ lkPc' = [lkPc EXCEPT !["runJob"] = LkAt("wait"),
                            !["stdout"] = LkAt("append"),
                            !["stderr"] = LkAt("append")]
    /\ UNCHANGED <<lkHolder, lkWrote>>
    /\ LockFrame

\* readStream: Read fails or the stream has ended: the task returns
LkReaderReturn(t) ==
    /\ t \in {"stdout", "stderr"}
    /\ lkPc[t] = LkAt("append")
    /\ lkPc' = [lkPc EXCEPT ![t] = LkAt("end")]
    /\ UNCHANGED <<lkHolder, lkWrote>>
    /\ LockFrame

\* runJob: cmd.Wait and wg.Wait have returned
LkWaited ==
    /\ lkPc["runJob"] = LkAt("wait")
    /\ lkPc["stdout"] = LkAt("end") /\ lkPc["stderr"] = LkAt("end")
    /\ lkPc' = [lkPc EXCEPT !["runJob"] = LkAt("finish")]
    /\ UNCHANGED <<lkHolder, lkWrote>>
    /\ LockFrame

\* streamJob: the client is gone: return, and the deferred Unsubscribe
LkDisconnect ==
    /\ lkPc["stream"] = LkAt("tick")
    /\ lkPc' = [lkPc EXCEPT !["stream"] = LkAt("Unsubscribe")]
    /\ UNCHANGED <<lkHolder, lkWrote>>
    /\ LockFrame

LockNext ==
    \/ \E t \in LkTasks : LkEnter(t)
    \/ \E t \in LkTasks, next \in LkSections \cup {"spawn", "end"} : LkLeave(t, next)
    \/ LkSpawnReaders
    \/ \E t \in LkTasks : LkReaderReturn(t)
    \/ LkWaited
    \/ LkDisconnect

\* tasks t1 and t2 are inside sections that touch the same field, one of
\* them writing it
LkConflict(t1, t2) ==
    /\ lkPc[t1].in /\ lkPc[t2].in
    /\ \E a1 \in Accesses(lkPc[t1].sec), a2 \in Accesses(lkPc[t2].sec) :
          a1[1] = a2[1] /\ "w" \in {a1[2], a2[2]}

\* C26: no two tasks are at the same time inside code that touches the same
\* mutable field of the Job with one of them writing it; a field that two
\* different tasks have written was written under the lock every time; and
\* the poller, the streamer and the sweep read the fields only while they
\* hold the lock.
C26_JobFieldsUnderLock ==
    /\ \A t1, t2 \in LkTasks : t1 # t2 => ~LkConflict(t1, t2)
    /\ \A f \in LkFields :
          (\E e1, e2 \in lkWrote[f] : e1[1] # e2[1]) =>
              \A e \in lkWrote[f] : e[2]
    /\ \A t \in {"poll", "stream", "sweep"} :
          (lkPc[t].in /\ \E a \in Accesses(lkPc[t].sec) : a[2] = "r") =>
              lkHolder = t

\* runJob sets the final fields under the lock after both readers and itself
\* have written Output, while the poller and the streamer wait for the lock
C26_Witness ==
    /\ lkHolder = "runJob" /\ lkPc["runJob"] = [sec |-> "finish", in |-> TRUE]
    /\ lkWrote["Output"] = { <<"runJob", TRUE>>, <<"stdout", TRUE>>,
                             <<"stderr", TRUE>> }
    /\ lkWrote["cancel"] = { <<"runJob", FALSE>> }
    /\ lkPc["poll"] = LkAt("poll") /\ lkPc["stream"] = LkAt("tick")

(***************************************************************************)
(* The capped buffers on their own: limitedBuffer.Write and the loop of    *)
(* ReadAllLimited, fed with arbitrary non-empty chunks.                    *)
(***************************************************************************)
BufLimits == {-1, 0, 1, 3}
BufBytes == {"a", "b"}

\* the non-empty chunks of at most n bytes
Chunks(n) == UNION {[1..k -> BufBytes] : k \in 1..n}

\* no limitedBuffer, no ReadAllLimited call
BufIdle ==
    /\ lb = [buf |-> <<>>, limit |-> 0, truncated |-> FALSE]
    /\ lbWritten = <<>>
    /\ ra = [out |-> <<>>, limit |-> 0, status |-> "idle"]
    /\ raRead = <<>>

\* &limitedBuffer{limit: limit} and ReadAllLimited(r, limit) on entry
BufInit ==
    /\ \E limit \in BufLimits :
          lb = [buf |-> <<>>, limit |-> limit, truncated |-> FALSE]
    /\ lbWritten = <<>>
    /\ \E limit \in BufLimits :
          ra = [out |-> <<>>, limit |-> limit, status |-> "more"]
    /\ raRead = <<>>

\* exec's copy loop calls Write with the bytes it has just read (never none)
BufWrite(p) ==
    /\ Len(lbWritten) + Len(p) <= MaxWrite
    /\ lb' = LimitedWrite(lb, p)
    /\ lbWritten' = lbWritten \o p
    /\ UNCHANGED <<ra, raRead>>
    /\ BufFrame

\* one pass of the loop of ReadAllLimited whose Read returns the bytes p
BufRead(p) ==
    /\ ra.status = "more"
    /\ Len(raRead) + Len(p) <= MaxWrite
    /\ LET r == ReadAllLimitedIter(ra.out, p, ra.limit)
       IN  ra' = [ra EXCEPT !.out = r.out, !.status = r.status]
    /\ raRead' = raRead \o p
    /\ UNCHANGED <<lb, lbWritten>>
    /\ BufFrame

\* Read returns io.EOF: ReadAllLimited returns what it has, not truncated
BufReadEOF ==
    /\ ra.status = "more"
    /\ LET r == ReadAllLimitedIter(ra.out, <<>>, ra.limit)
       IN  ra' = [ra EXCEPT !.out = r.out, !.status = r.status]
    /\ UNCHANGED <<lb, lbWritten, raRead>>
    /\ BufFrame

BufNext ==
    \/ \E p \in Chunks(ReadBuf) : BufWrite(p)
    \/ \E p \in Chunks(ReadBuf) : BufRead(p)
    \/ BufReadEOF

\* C17: after any sequence of writes to a capped buffer with limit L (the
\* default when L <= 0) the content is the first min(total, L) bytes of all
\* that was written, and truncated is true exactly when bytes were
\* discarded; the same for what ReadAllLimited returns of the bytes read.
C17_CappedBufferKeepsPrefix ==
    /\ lb.buf = FirstBytes(lbWritten, EffLimit(lb.limit))
    /\ lb.truncated <=> Len(lbWritten) > EffLimit(lb.limit)
    /\ ra.status # "idle" =>
          /\ ra.out = FirstBytes(raRead, EffLimit(ra.limit))
          /\ (ra.status = "truncated") <=> Len(raRead) > EffLimit(ra.limit)

\* both buffers have discarded bytes: 5 bytes against limits 3 and default
C17_Witness ==
    /\ lb.truncated /\ lb.limit = 3 /\ Len(lb.buf) = 3 /\ Len(lbWritten) = 5
    /\ ra.status = "truncated" /\ ra.limit = 0 /\ Len(ra.out) = DefaultLimit

(***************************************************************************)
(* Specifications.                                                         *)
(***************************************************************************)
RunSpecInit == RunInit /\ PipeIdle /\ JobsIdle /\ BufIdle /\ ReplIdle /\ LockIdle

SpecRun == RunSpecInit /\ [][RunNext]_vars

PipeSpecInit == PipeInit /\ RunIdle /\ JobsIdle /\ BufIdle /\ ReplIdle /\ LockIdle

SpecPipe == PipeSpecInit /\ [][PipeNext]_vars

JobsSpecInit == JobsInit /\ RunIdle /\ PipeIdle /\ BufIdle /\ ReplIdle /\ LockIdle

SpecJob == JobsSpecInit /\ [][JobNext]_vars

SpecTable == JobsSpecInit /\ [][TableNext]_vars

BufSpecInit == BufInit /\ RunIdle /\ PipeIdle /\ JobsIdle /\ ReplIdle /\ LockIdle

SpecBuf == BufSpecInit /\ [][BufNext]_vars

\* the pipeline with its scheduling: a step that can be taken (of the
\* call, of a process, of a copying goroutine, or the deadline) is taken
SpecPipeLive == PipeSpecInit /\ [][PipeNext]_vars /\ WF_vars(PipeNext)

\* a call of Run or a call of runPipeline
ExecSpecInit ==
    /\ (RunInit /\ PipeIdle) \/ (PipeInit /\ RunIdle)
    /\ JobsIdle /\ BufIdle /\ ReplIdle /\ LockIdle

SpecExec == ExecSpecInit /\ [][ExecNext]_vars

ReplSpecInit == ReplInit /\ RunIdle /\ PipeIdle /\ JobsIdle /\ BufIdle /\ LockIdle

SpecRepl == ReplSpecInit /\ [][ReplNext]_vars

LockSpecInit ==
    LockInit /\ RunIdle /\ PipeIdle /\ JobsIdle /\ BufIdle /\ ReplIdle

SpecLock == LockSpecInit /\ [][LockNext]_vars

SpecStream == JobsSpecInit /\ [][StreamNext]_vars

SpecCtx == JobsSpecInit /\ [][CtxNext]_vars

====
